---- MODULE Spec2Model ----
(***************************************************************************)
(* A model of the TextEdit widget (src/app/ui/textedit.h, textedit.cpp):   *)
(* the flat text, the line store, the caret, the selection, the clipboard  *)
(* and the key / mouse handlers that change them.                          *)
(*                                                                         *)
(* Three specifications share the definitions: Spec (a widget given its    *)
(* text once, then edited with keyboard, clipboard and mouse), SpecSetText *)
(* (keyboard and clipboard, the owner replacing the text at any time) and  *)
(* SpecCaret (the caret and selection operations over any text).           *)
(*                                                                         *)
(* Strings are sequences of one-character strings.  Lines, columns and     *)
(* flat offsets are 0-based as in the source; TLA+ sequences are 1-based,  *)
(* so line k of the source is m_lines[k + 1] here.                         *)
(***************************************************************************)
EXTENDS Integers, Sequences, FiniteSets, TLC

\* Bound on the length of the widget's flat text.
MaxLen == 2

\* Bound on the length of a text another application puts on the clipboard.
MaxClip == 1

\* Bound on the length of the text under the caret operations taken alone.
MaxCaretLen == 4

NL == "\n"

\* Printable characters a key can produce: a word character and a blank.
Chars == {"a", " "}

Alphabet == Chars \cup {NL}

\* The strings over S of length at most n.
RECURSIVE StringsUpTo(_, _)
StringsUpTo(S, n) ==
  IF n = 0 THEN {<<>>}
  ELSE LET shorter == StringsUpTo(S, n - 1)
       IN shorter \cup {Append(str, ch) : str \in shorter, ch \in S}

Texts == StringsUpTo(Alphabet, MaxLen)

ClipTexts == StringsUpTo(Alphabet, MaxClip)

CaretTexts == StringsUpTo(Alphabet, MaxCaretLen)

(***************************************************************************)
(* std::string operations used by the widget (0-based offsets).            *)
(***************************************************************************)

\* str.insert(p, t), for p <= str.size()
Insert(str, p, t) == SubSeq(str, 1, p) \o t \o SubSeq(str, p + 1, Len(str))

\* str.substr(p, n), for p <= str.size(); n is a size_t, so a negative
\* difference passed for it is huge and the result runs to the end.
Substr(str, p, n) ==
  IF n < 0 \/ p + n > Len(str) THEN SubSeq(str, p + 1, Len(str))
                                ELSE SubSeq(str, p + 1, p + n)

\* str.erase(begin + a, begin + b) for a <= b <= size.  For a > b the range
\* is invalid: a build either keeps [0,a) followed by [b,size) (the tail is
\* moved over "-1" characters) or truncates at a; `how` names which.
Erase(str, a, b, how) ==
  IF a > b /\ how = "trunc" THEN SubSeq(str, 1, a)
                            ELSE SubSeq(str, 1, a) \o SubSeq(str, b + 1, Len(str))

HasNL(str) == \E k \in 1..Len(str) : str[k] = NL

\* base::split_string(text, parts, "\n"): the pieces between separators; a
\* text with k separators gives k + 1 pieces, the empty text one empty piece.
RECURSIVE SplitAcc(_, _, _)
SplitAcc(str, parts, cur) ==
  IF str = <<>> THEN Append(parts, cur)
  ELSE IF Head(str) = NL THEN SplitAcc(Tail(str), Append(parts, cur), <<>>)
  ELSE SplitAcc(Tail(str), parts, Append(cur, Head(str)))

split_string(str) == SplitAcc(str, <<>>, <<>>)

\* The line texts joined with "\n".
RECURSIVE JoinFrom(_, _)
JoinFrom(lines, k) ==
  IF k > Len(lines) THEN <<>>
  ELSE IF k = Len(lines) THEN lines[k].text
  ELSE lines[k].text \o <<NL>> \o JoinFrom(lines, k + 1)

JoinLines(lines) == JoinFrom(lines, 1)

(***************************************************************************)
(* TextEdit::Caret.  ml is "m_lines != nullptr": a caret either points at  *)
(* the widget's line vector or at nothing.                                 *)
(***************************************************************************)

Caret(line, pos) == [line |-> line, pos |-> pos, ml |-> TRUE]

\* Caret(): no line vector, line = pos = 0.
NullCaret == [line |-> 0, pos |-> 0, ml |-> FALSE]

\* Whether (*m_lines)[line] exists.
LineInRange(lines, c) == c.ml /\ c.line >= 0 /\ c.line < Len(lines)

\* What the oracle `o` supplies where the code reads outside the line vector
\* or erases an invalid range: whether the access faults and, if it does not,
\* the number read and what the erase leaves.
Oracles ==
  {[fault |-> TRUE, len |-> 0, erase |-> "dup"]}
    \cup [fault : {FALSE}, len : 0..MaxLen, erase : {"dup", "trunc"}]

NoOracle == [fault |-> FALSE, len |-> 0, erase |-> "dup"]

\* std::clamp(v, lo, hi)
Clamp(v, lo, hi) == IF v < lo THEN lo ELSE IF hi < v THEN hi ELSE v

\* text().size(): the length of the caret's line, or what the oracle reads
\* when the line does not exist.
Caret_textSize(lines, c, o) ==
  IF LineInRange(lines, c) THEN Len(lines[c.line + 1].text) ELSE o.len

Caret_isValid(lines, c) ==
  /\ c.ml
  /\ ~(c.line < 0 \/ c.line >= Len(lines))
  /\ ~(c.pos < 0 \/ c.pos > Len(lines[c.line + 1].text))

\* isWordChar: neither NUL, whitespace nor punctuation.
isWordChar(ch) == ch = "a"

\* isWordChar(text()[p]) for p <= size: text()[size] is the terminating NUL.
WordAt(lines, c, p) ==
  IF p < Len(lines[c.line + 1].text)
    THEN isWordChar(lines[c.line + 1].text[p + 1])
    ELSE FALSE

RECURSIVE LeftWordFind(_, _, _)
LeftWordFind(lines, c, p) ==
  IF p < 0 THEN p
  ELSE IF WordAt(lines, c, p) THEN p
  ELSE LeftWordFind(lines, c, p - 1)

RECURSIVE LeftWordSkip(_, _, _)
LeftWordSkip(lines, c, p) ==
  IF p < 0 THEN p
  ELSE IF ~WordAt(lines, c, p) THEN p + 1
  ELSE LeftWordSkip(lines, c, p - 1)

\* Results of caret moves: the caret, the value returned, and whether the
\* move read outside the line vector (gar).
Moved(c, ret, gar) == [c |-> c, ret |-> ret, gar |-> gar]

\* leftWord() reads text()[pos - 1] downwards.  Started beyond the line's
\* NUL, or on a line that does not exist, the characters read are the
\* oracle's and the scan ends anywhere in -1 .. pos - 1.
Caret_leftWord(lines, c, o) ==
  IF c.pos < 1
    THEN Moved([c EXCEPT !.pos = c.pos - 1], TRUE, FALSE)
  ELSE IF ~LineInRange(lines, c) \/ c.pos - 1 > Len(lines[c.line + 1].text)
    THEN Moved([c EXCEPT !.pos = Clamp(o.len - 1, -1, c.pos - 1)], TRUE, TRUE)
  ELSE Moved([c EXCEPT !.pos = LeftWordSkip(lines, c,
                                  LeftWordFind(lines, c, c.pos - 1))],
             TRUE, FALSE)

\* left() wrapping to the start, not the end, of the previous line.
Caret_left_WrapToStart(lines, c, byWord, o) ==
  LET m  == IF byWord THEN Caret_leftWord(lines, c, o)
                      ELSE Moved([c EXCEPT !.pos = c.pos - 1], TRUE, FALSE)
      c1 == m.c
  IN IF c1.pos < 0
       THEN IF c1.line = 0
              THEN Moved([c1 EXCEPT !.pos = 0], FALSE, m.gar)
              ELSE Moved([c1 EXCEPT !.line = c1.line - 1, !.pos = 0],
                         TRUE, m.gar)
       ELSE Moved(c1, TRUE, m.gar)

Caret_left(lines, c, byWord, o) ==
  LET m  == IF byWord THEN Caret_leftWord(lines, c, o)
                      ELSE Moved([c EXCEPT !.pos = c.pos - 1], TRUE, FALSE)
      c1 == m.c
  IN IF c1.pos < 0
       THEN IF c1.line = 0
              THEN Moved([c1 EXCEPT !.pos = 0], FALSE, m.gar)
              ELSE LET c2 == [c1 EXCEPT !.line = c1.line - 1]
                   IN Moved([c2 EXCEPT !.pos = Caret_textSize(lines, c2, o)],
                            TRUE, m.gar \/ ~LineInRange(lines, c2))
       ELSE Moved(c1, TRUE, m.gar)

RECURSIVE RightWordFind(_, _, _, _)
RightWordFind(lines, c, len, p) ==
  IF p >= len THEN p
  ELSE IF isWordChar(lines[c.line + 1].text[p + 1]) THEN p
  ELSE RightWordFind(lines, c, len, p + 1)

RECURSIVE RightWordSkip(_, _, _, _)
RightWordSkip(lines, c, len, p) ==
  IF p >= len THEN p
  ELSE IF ~isWordChar(lines[c.line + 1].text[p + 1]) THEN p
  ELSE RightWordSkip(lines, c, len, p + 1)

\* On a line that does not exist every read is the oracle's: the scan ends
\* somewhere between pos and the length read.
Caret_rightWord(lines, c, o) ==
  IF LineInRange(lines, c)
    THEN LET len == Len(lines[c.line + 1].text)
         IN Moved([c EXCEPT !.pos = RightWordSkip(lines, c, len,
                                      RightWordFind(lines, c, len, c.pos))],
                  TRUE, FALSE)
    ELSE Moved([c EXCEPT !.pos = IF c.pos < o.len THEN o.len ELSE c.pos],
               TRUE, TRUE)

Caret_right(lines, c, byWord, o) ==
  LET m  == IF byWord THEN Caret_rightWord(lines, c, o)
                      ELSE Moved([c EXCEPT !.pos = c.pos + 1], TRUE, FALSE)
      c1 == m.c
      gar == m.gar \/ ~LineInRange(lines, c1)
  IN IF c1.pos > Caret_textSize(lines, c1, o)
       THEN IF c1.line = Len(lines) - 1
              THEN Moved([c1 EXCEPT !.pos = c1.pos - 1], FALSE, gar)
              ELSE Moved([c1 EXCEPT !.line = c1.line + 1, !.pos = 0], TRUE, gar)
       ELSE Moved(c1, TRUE, gar)

Caret_up(lines, c, o) ==
  LET c1 == [c EXCEPT !.line = Clamp(c.line - 1, 0, Len(lines) - 1)]
  IN Moved([c1 EXCEPT !.pos = Clamp(c.pos, 0, Caret_textSize(lines, c1, o))],
           TRUE, ~LineInRange(lines, c1))

Caret_down(lines, c, o) ==
  LET c1 == [c EXCEPT !.line = Clamp(c.line + 1, 0, Len(lines) - 1)]
  IN Moved([c1 EXCEPT !.pos = Clamp(c.pos, 0, Caret_textSize(lines, c1, o))],
           TRUE, ~LineInRange(lines, c1))

\* absolutePos(): walks the lines, adding size + 1 for each one before the
\* line whose index field i equals the caret's line.
RECURSIVE AbsFrom(_, _, _, _)
AbsFrom(lines, c, k, apos) ==
  IF k > Len(lines) THEN apos
  ELSE IF lines[k].i = c.line THEN apos + c.pos
  ELSE AbsFrom(lines, c, k + 1, apos + Len(lines[k].text) + 1)

\* absolutePos() counting the lines' characters but not their line breaks.
Caret_absolutePos_NoBreaks(lines, c) == AbsFrom(lines, c, 1, 0) - c.line

Caret_absolutePos(lines, c) == AbsFrom(lines, c, 1, 0)

\* advanceBy(characters): the loop over i = line .. size - 1.
RECURSIVE AdvanceFrom(_, _, _, _)
AdvanceFrom(lines, c, remaining, i) ==
  IF i >= Len(lines) THEN c
  ELSE LET remainingInLine == Len(lines[c.line + 1].text) - c.pos
       IN IF remaining > remainingInLine
            THEN AdvanceFrom(lines, [c EXCEPT !.line = c.line + 1, !.pos = 0],
                             remaining - remainingInLine, i + 1)
            ELSE [c EXCEPT !.pos = c.pos + remaining]

Caret_advanceBy(lines, c, characters) == AdvanceFrom(lines, c, characters, c.line)

\* operator== and operator> of Caret (m_lines takes no part).
Caret_eq(a, b) == a.line = b.line /\ a.pos = b.pos

Caret_gt(a, b) ==
  IF a.line = b.line THEN a.pos > b.pos
                     ELSE (a.line + a.pos) > (b.line + a.pos)

(***************************************************************************)
(* TextEdit::Selection                                                     *)
(***************************************************************************)

Selection_clear == [start |-> NullCaret, end |-> NullCaret]

Selection_isEmpty(sel) ==
  sel.start.line = sel.end.line /\ sel.start.pos = sel.end.pos

Selection_isValid(lines, sel) ==
  Caret_isValid(lines, sel.start) /\ Caret_isValid(lines, sel.end)

Selection_to(sel, caret) ==
  IF caret.line + caret.pos < sel.start.line + sel.start.pos
    THEN [start |-> caret, end |-> caret]
    ELSE [sel EXCEPT !.end = caret]

\* Selection(startCaret, endCaret): end is a default Caret() until to() runs.
Selection_new(startCaret, endCaret) ==
  Selection_to([start |-> startCaret, end |-> NullCaret], endCaret)

(***************************************************************************)
(* The widget's state.                                                     *)
(***************************************************************************)
VARIABLES
  text,               \* Widget::text(), the flat string
  m_lines,            \* std::vector<Line>: records [text, i]
  m_caret,
  m_selection,
  m_mouseCaretStart,
  clipboard,          \* the system clipboard's text
  clipReadable,       \* whether get_clipboard_text() succeeds
  hasCapture,         \* Widget::hasCapture()
  crashed             \* the process has faulted (invalid access, uncaught throw)

textVars == <<text, m_lines, m_caret, m_selection, m_mouseCaretStart,
              clipboard, clipReadable, hasCapture, crashed>>

(***************************************************************************)
(* The Dock tree (dock.cpp).  The Docks live in a small heap: the root     *)
(* Dock, which the application owns, and the Docks that subdock() and      *)
(* dockRelativeTo() create with `new Dock`.  The other widgets are the     *)
(* dockable leaves.                                                        *)
(***************************************************************************)

\* How many Docks `new Dock` can give out at one time, and how many calls
\* of the Dock operations a behaviour makes.
MaxNewDocks == 2
MaxCalls == 4
MaxMsgs == 5
MaxTreeCalls == 3
MaxInits == 6
MaxRuns == 6
MaxBlinks == 6

\* enum { kTopIndex, kBottomIndex, kLeftIndex, kRightIndex, kCenterIndex }
kTopIndex == 0
kBottomIndex == 1
kLeftIndex == 2
kRightIndex == 3
kCenterIndex == 4

\* for (int i = 0; i < kSides; ++i)
Slots == {kTopIndex, kBottomIndex, kLeftIndex, kRightIndex, kCenterIndex}

\* The sides a caller passes (ui::TOP ...), and those the calls of the
\* model take.
Sides == {"TOP", "BOTTOM", "LEFT", "RIGHT", "CENTER"}
CallSides == {"LEFT", "CENTER"}

\* What whichSideChildIsDocked returns for "not docked here" (0).
NoSide == "0"

\* The alignment value 0 (no flag) and the flag that makes a size count.
NoAlign == {}
EXPANSIVE == "EXPANSIVE"

RootDock == "D"
DockSeq == <<"N1", "N2", "N3", "N4">>
DockPool == {DockSeq[k] : k \in 1..MaxNewDocks}
DockIds == {RootDock} \cup DockPool

\* The leaf widgets: `a` is a Dockable that is expansive, `b` a Dockable
\* that is not.
Leaves == {"a", "b"}
\* The DockDropzonePlaceholder of the Dock that is dragging: a Dockable that
\* keeps the default dockableAt() and has no handle (dockHandleSide() 0).
Placeholder == "ph"
Nodes == DockIds \cup Leaves \cup {Placeholder}
NULL == "nullptr"

\* Dockable::dockableAt() of each leaf; the placeholder keeps the default of
\* Dockable, every side and EXPANSIVE.
dockableAt(w) ==
  IF w = "a" THEN {"LEFT", "RIGHT", "TOP", "BOTTOM", EXPANSIVE}
  ELSE IF w = Placeholder
    THEN {"LEFT", "RIGHT", "TOP", "BOTTOM", "CENTER", EXPANSIVE}
  ELSE {"TOP", "BOTTOM"}

\* gfx::Size values; a size hint is kept as "the hint of that widget".
Size(w, h) == [w |-> w, h |-> h]
PrefSizes == {Size(0, 0), Size(100, 100)}
sizeHint(n) == [hintOf |-> n]

VARIABLES
  m_sides,            \* [dock][i]: the occupant of slot i, or NULL
  m_aligns,           \* [dock][i]: the cached alignment of slot i
  m_sizes,            \* [dock][i]: the stored size of slot i
  m_autoDelete,       \* [dock]
  m_customizing,      \* [dock]
  parent,             \* Widget::parent() of every node (children() is its inverse)
  allocated,          \* the Docks that exist (constructed and not deleted)
  calls               \* the number of Dock operations called so far

dockVars == <<m_sides, m_aligns, m_sizes, m_autoDelete, m_customizing,
              parent, allocated, calls>>

\* The mouse protocol of the Dock under the pointer (Dock::onProcessMessage).
VARIABLES
  m_hit,              \* Hit: sideIndex, dockable, targetSide
  m_dragging,
  m_startPos,         \* the pointer at the last mouse-down that hit something
  m_startSize,        \* m_sizes[m_hit.sideIndex] at that mouse-down
  dockCapture,        \* hasCapture() of that Dock
  mouseDock,          \* the Dock the mouse messages are sent to
  msgs                \* the number of mouse messages sent so far

mouseVars == <<m_hit, m_dragging, m_startPos, m_startSize, dockCapture,
               mouseDock, msgs>>

\* The Layouts collection and the file it is loaded from and saved to.
VARIABLES
  m_layouts,          \* the LayoutPtr vector of the Layouts object
  layoutsAlive,       \* the Layouts object exists (constructed, not destroyed)
  storage             \* the user layouts file

layoutsVars == <<m_layouts, layoutsAlive, storage>>

\* The file is missing, cannot be parsed, or is a document whose <layouts>
\* element holds the <layout> elements `elems` (none in an empty document).
NoFile == [kind |-> "missing", elems |-> <<>>]
Unparsable == [kind |-> "unparsable", elems |-> <<>>]
Document(elems) == [kind |-> "doc", elems |-> elems]

\* The Layouts object constructed where no user layouts file exists.
LayoutsConstructed ==
  /\ m_layouts = <<>>
  /\ layoutsAlive = TRUE
  /\ storage = NoFile

\* An extension with scripts, and the Commands registry.
VARIABLES
  extEnabled,         \* Extension::isEnabled()
  extInitialized,     \* the init script has run and the exit script has not
  commands,           \* the ids Commands::byId() finds
  pluginItems,        \* what the script created and did not delete, in order
  removed,            \* the MenuItemRemoveCommand and MenuGroupRemove signals
                      \* of the last run of the exit actions, in order
  prefCount,          \* plugin.preferences.count
  inits               \* how often the init script ran

extVars == <<extEnabled, extInitialized, commands, pluginItems, removed,
             prefCount, inits>>

\* The extension as Extensions(folder) finds it: enabled, its scripts not
\* yet run.
ExtensionLoaded ==
  /\ extEnabled = TRUE
  /\ extInitialized = FALSE
  /\ commands = {}
  /\ pluginItems = <<>>
  /\ removed = <<>>
  /\ prefCount = 0
  /\ inits = 0

\* The caret blink of two TextEdit widgets: the timer all TextEdits share,
\* and what the window manager knows of focus and capture.
VARIABLES
  s_timer,            \* static std::unique_ptr<Timer> s_timer: the widget
                      \* the Timer was made for, or NULL
  running,            \* per widget, the started Timers made for it
  m_drawCaret,        \* per widget, TextEdit::m_drawCaret
  focus_widget,       \* the widget with HAS_FOCUS, or NULL
  capture_widget,     \* the widget that captured the mouse, or NULL
  inFlight,           \* the focus messages in the message queue, in order
  blinks              \* messages handled so far

blinkVars == <<s_timer, running, m_drawCaret, focus_widget, capture_widget,
               inFlight, blinks>>

TextEdits == {"T1", "T2"}

\* Two TextEdits constructed: no timer, m_drawCaret = false, no focus.
BlinkConstructed ==
  /\ s_timer = NULL
  /\ running = [w \in TextEdits |-> 0]
  /\ m_drawCaret = [w \in TextEdits |-> FALSE]
  /\ focus_widget = NULL
  /\ capture_widget = NULL
  /\ inFlight = << >>
  /\ blinks = 0

\* Everything outside the text state of the TextEdit.
outsideText == <<dockVars, mouseVars, layoutsVars, extVars, blinkVars>>

vars == <<textVars, outsideText>>

\* Dock::Dock(): every slot empty, alignment 0, size (0,0).
NewDock == [sides  |-> [i \in Slots |-> NULL],
            aligns |-> [i \in Slots |-> NoAlign],
            sizes  |-> [i \in Slots |-> Size(0, 0)]]

\* gfx::Point, and Hit() as Dock's members start: no separator (sideIndex
\* -1), no Dockable, no target side (-1).
Point(x, y) == [x |-> x, y |-> y]
NoTarget == "-1"
NoIndex == 0 - 1
NoHit == [sideIndex |-> NoIndex, dockable |-> NULL, targetSide |-> NoTarget]

\* The root Dock constructed, nothing docked, no other Dock allocated, no
\* mouse message received.
DockConstructed ==
  /\ m_hit = NoHit
  /\ m_dragging = FALSE
  /\ m_startPos = Point(0, 0)
  /\ m_startSize = Size(0, 0)
  /\ dockCapture = FALSE
  /\ mouseDock = RootDock
  /\ msgs = 0
  /\ m_sides = [d \in DockIds |-> NewDock.sides]
  /\ m_aligns = [d \in DockIds |-> NewDock.aligns]
  /\ m_sizes = [d \in DockIds |-> NewDock.sizes]
  /\ m_autoDelete = [d \in DockIds |-> FALSE]
  /\ m_customizing = [d \in DockIds |-> FALSE]
  /\ parent = [n \in Nodes |-> NULL]
  /\ allocated = {RootDock}
  /\ calls = 0

\* The state as one record, so that a handler is an operator from state to
\* state.  gar records that the handler read outside the line vector.
St == [text |-> text, lines |-> m_lines, caret |-> m_caret,
       sel |-> m_selection, mcs |-> m_mouseCaretStart,
       clip |-> clipboard, clipOK |-> clipReadable,
       capture |-> hasCapture, crashed |-> crashed, gar |-> FALSE]

\* A null dereference, an out-of-range std::string position (which throws
\* std::out_of_range, caught nowhere) or a faulting invalid access.
Crash(s) == [s EXCEPT !.crashed = TRUE]

\* A read or erase outside the valid range: it faults if the oracle says so,
\* and always when the line vector was never allocated (a null data pointer);
\* otherwise the handler carries on as `cont`.
Invalid(s, o, cont) ==
  IF o.fault \/ Len(s.lines) = 0 THEN [s EXCEPT !.crashed = TRUE, !.gar = TRUE]
                                  ELSE [cont EXCEPT !.gar = TRUE]

\* TextEdit::onSetText: m_lines rebuilt from text(), each line's i set to
\* its place in the vector.
BuildLines(str) ==
  LET newLines == split_string(str)
  IN [k \in 1..Len(newLines) |-> [text |-> newLines[k], i |-> k - 1]]

onSetText(s) == [s EXCEPT !.lines = BuildLines(s.text)]

\* TextEdit::deleteSelection
deleteSelection(s, o) ==
  IF s.crashed THEN s
  ELSE IF Selection_isEmpty(s.sel) \/ ~Selection_isValid(s.lines, s.sel) THEN s
  ELSE
    LET a == Caret_absolutePos(s.lines, s.sel.start)
        b == Caret_absolutePos(s.lines, s.sel.end)
        newText == Erase(s.text, a, b, o.erase)
        l == s.sel.start.line + 1
        done ==
          IF s.sel.start.line = s.sel.end.line
            THEN [s EXCEPT !.lines[l].text =
                             Erase(@, s.sel.start.pos, s.sel.end.pos, o.erase),
                           !.text = newText,
                           !.caret = s.sel.start,
                           !.sel = Selection_clear]
            ELSE [onSetText([s EXCEPT !.text = newText])
                    EXCEPT !.caret = s.sel.start, !.sel = Selection_clear]
    IN IF a > Len(s.text) \/ b > Len(s.text) THEN Crash(s)
       ELSE IF a > b THEN Invalid(s, o, done)
       ELSE done

\* TextEdit::insertCharacter.  On a caret that is not valid either the
\* line's insert or newText.insert throws (absolutePos() of a caret on no
\* line is past the text's end).
insertCharacter(s, ch) ==
  IF s.crashed THEN s
  ELSE IF ~Caret_isValid(s.lines, s.caret)
            \/ Caret_absolutePos(s.lines, s.caret) > Len(s.text)
    THEN Crash(s)
  ELSE [s EXCEPT !.lines[s.caret.line + 1].text = Insert(@, s.caret.pos, <<ch>>),
                 !.text = Insert(@, Caret_absolutePos(s.lines, s.caret), <<ch>>),
                 !.caret.pos = @ + 1]

\* TextEdit::copy
copy(s) ==
  IF s.crashed THEN s
  ELSE IF Selection_isEmpty(s.sel) THEN s
  ELSE IF ~s.sel.start.ml \/ ~s.sel.end.ml THEN Crash(s)
  ELSE LET startPos == Caret_absolutePos(s.lines, s.sel.start)
           endPos   == Caret_absolutePos(s.lines, s.sel.end)
       IN IF startPos < 0 \/ startPos > Len(s.text) THEN Crash(s)
          ELSE [s EXCEPT !.clip = Substr(s.text, startPos, endPos - startPos),
                         !.clipOK = TRUE]

\* TextEdit::cut
cut(s, o) ==
  IF Selection_isEmpty(s.sel) THEN s
  ELSE deleteSelection(copy(s), o)

\* TextEdit::paste
paste(s, o) ==
  IF s.crashed THEN s
  ELSE IF ~Caret_isValid(s.lines, s.caret) THEN s
  ELSE
    LET d == deleteSelection(s, o)
        at == Caret_absolutePos(d.lines, d.caret)
        newText == Insert(d.text, at, d.clip)
        ins ==
          IF ~HasNL(d.clip)
            THEN [d EXCEPT !.lines[d.caret.line + 1].text =
                             Insert(@, d.caret.pos, d.clip),
                           !.text = newText]
            ELSE onSetText([d EXCEPT !.text = newText])
    IN IF d.crashed THEN d
       ELSE IF ~d.clipOK THEN d
       ELSE IF at > Len(d.text) \/ ~Caret_isValid(d.lines, d.caret) THEN Crash(d)
       ELSE [ins EXCEPT !.caret =
                          Caret_advanceBy(ins.lines, ins.caret, Len(d.clip))]

\* selectAll with the end caret left at the start of the last line.
selectAll_EndAtLineStart(s) ==
  IF s.text = <<>> \/ Len(s.lines) = 0 THEN s
  ELSE [s EXCEPT !.sel = Selection_new(Caret(0, 0),
                                       Caret(Len(s.lines) - 1, 0))]

\* TextEdit::selectAll
selectAll(s) ==
  IF s.text = <<>> \/ Len(s.lines) = 0 THEN s
  ELSE LET last == Len(s.lines) - 1
       IN [s EXCEPT !.sel = Selection_new(Caret(0, 0),
                               Caret(last, Len(s.lines[last + 1].text)))]

\* A caret move inside a handler: the caret becomes m.c; a move that read
\* outside the line vector is an invalid access.
WithCaret(s, o, m) ==
  IF m.gar THEN Invalid(s, o, [s EXCEPT !.caret = m.c])
           ELSE [s EXCEPT !.caret = m.c]

\* The end of onKeyDown, "Selection addition/removal".
KeySelection(s, shift, prevCaret) ==
  IF s.crashed THEN s
  ELSE IF shift
    THEN LET sel1 == IF Selection_isEmpty(s.sel)
                       THEN [s.sel EXCEPT !.start = prevCaret]
                       ELSE s.sel
         IN [s EXCEPT !.sel = Selection_to(sel1, s.caret)]
    ELSE [s EXCEPT !.sel = Selection_clear]

\* The key messages the handler tells apart: scancode, Ctrl (byWord), Shift,
\* the character of a printable key and whether it is a dead key.
Key(scancode, ctrl, shift) ==
  [scancode |-> scancode, ctrl |-> ctrl, shift |-> shift,
   ch |-> "a", dead |-> FALSE]

CharKey(ch, dead) ==
  [scancode |-> "Char", ctrl |-> FALSE, shift |-> FALSE, ch |-> ch, dead |-> dead]

\* case kKeyEnter
KeyEnterCase(s, o) ==
  LET d  == deleteSelection(s, o)
      at == Caret_absolutePos(d.lines, d.caret)
  IN IF d.crashed THEN d
     ELSE IF at > Len(d.text) THEN Crash(d)
     ELSE [onSetText([d EXCEPT !.text = Insert(d.text, at, <<NL>>)])
             EXCEPT !.caret.line = @ + 1, !.caret.pos = 0]

\* case kKeyBackspace / kKeyDel
KeyDeleteCase(s, k, o) ==
  IF Selection_isEmpty(s.sel) \/ ~Selection_isValid(s.lines, s.sel)
    THEN LET m == IF k.scancode = "Backspace"
                    THEN Caret_left(s.lines, s.caret, k.ctrl, o)
                    ELSE Caret_right(s.lines, s.caret, k.ctrl, o)
             sel == IF k.scancode = "Backspace"
                      THEN [start |-> m.c, end |-> s.caret]
                      ELSE [start |-> s.caret, end |-> m.c]
             s1 == [s EXCEPT !.sel = sel]
         IN deleteSelection(IF m.gar THEN Invalid(s, o, s1) ELSE s1, o)
    ELSE deleteSelection(s, o)

\* default: a printable character
KeyCharCase(s, k, o) ==
  LET i == insertCharacter(deleteSelection(s, o), k.ch)
  IN IF i.crashed \/ ~k.dead THEN i
     ELSE [i EXCEPT !.sel = Selection_new(s.caret, i.caret)]

\* TextEdit::onKeyDown
onKeyDown(s, k, o) ==
  CASE k.scancode = "Left" ->
         KeySelection(WithCaret(s, o, Caret_left(s.lines, s.caret, k.ctrl, o)),
                      k.shift, s.caret)
    [] k.scancode = "Right" ->
         KeySelection(WithCaret(s, o, Caret_right(s.lines, s.caret, k.ctrl, o)),
                      k.shift, s.caret)
    [] k.scancode = "Enter" -> KeyEnterCase(s, o)
    [] k.scancode = "Home" ->
         KeySelection([s EXCEPT !.caret.pos = 0], k.shift, s.caret)
    [] k.scancode = "End" ->
         KeySelection(
           WithCaret(s, o, Moved([s.caret EXCEPT
                                    !.pos = Caret_textSize(s.lines, s.caret, o)],
                                 TRUE, ~LineInRange(s.lines, s.caret))),
           k.shift, s.caret)
    [] k.scancode = "Up" ->
         KeySelection(WithCaret(s, o, Caret_up(s.lines, s.caret, o)),
                      k.shift, s.caret)
    [] k.scancode = "Down" ->
         KeySelection(WithCaret(s, o, Caret_down(s.lines, s.caret, o)),
                      k.shift, s.caret)
    [] k.scancode \in {"Backspace", "Del"} -> KeyDeleteCase(s, k, o)
    [] k.scancode = "Char" -> KeyCharCase(s, k, o)
    [] k.scancode = "X" -> cut(s, o)
    [] k.scancode = "C" -> copy(s)
    [] k.scancode = "V" -> paste(s, o)
    [] k.scancode = "A" -> selectAll(s)

\* TextEdit::caretFromPosition: what a point can resolve to.  No view or a
\* point beside the viewport gives Caret(); above it (0,0); below it, or in
\* a line, a place of some line.  ok = FALSE is the access to m_lines.back()
\* of an empty vector.
HitTests(lines) ==
  {[ok |-> TRUE, c |-> NullCaret], [ok |-> TRUE, c |-> Caret(0, 0)]}
    \cup (IF Len(lines) = 0 THEN {[ok |-> FALSE, c |-> NullCaret]} ELSE {})
    \cup UNION {{[ok |-> TRUE, c |-> Caret(lines[k].i, p)] :
                    p \in 0..Len(lines[k].text)} : k \in 1..Len(lines)}

\* TextEdit::onMouseMove
onMouseMove(s, hit) ==
  IF ~hit.ok THEN Crash(s)
  ELSE IF ~Caret_isValid(s.lines, hit.c) THEN s
  ELSE LET s1 == [s EXCEPT !.caret = hit.c]
       IN IF ~Caret_isValid(s.lines, s.mcs) THEN [s1 EXCEPT !.mcs = hit.c]
          ELSE IF Caret_gt(hit.c, s.mcs)
            THEN [s1 EXCEPT !.sel = [start |-> s.mcs, end |-> hit.c]]
            ELSE [s1 EXCEPT !.sel = [start |-> hit.c, end |-> s.mcs]]

\* case kMouseDownMessage, falling through to kMouseMoveMessage
onMouseDown(s, shift, hit) ==
  LET s1 == IF shift
              THEN [s EXCEPT !.mcs = IF Selection_isEmpty(s.sel)
                                       THEN s.caret ELSE s.sel.start]
              ELSE IF ~s.capture THEN [s EXCEPT !.sel = Selection_clear]
              ELSE s
  IN onMouseMove([s1 EXCEPT !.capture = TRUE], hit)

\* case kMouseUpMessage
onMouseUp_KeepsCapture(s, shift) ==
  IF ~s.capture THEN s
  ELSE LET s1 == IF shift
                   THEN [s EXCEPT !.sel = Selection_to(
                                   [s.sel EXCEPT !.start = s.mcs], s.caret)]
                   ELSE s
       IN [s1 EXCEPT !.mcs = NullCaret]

onMouseUp(s, shift) ==
  IF ~s.capture THEN s
  ELSE LET s1 == IF shift
                   THEN [s EXCEPT !.sel = Selection_to(
                                   [s.sel EXCEPT !.start = s.mcs], s.caret)]
                   ELSE s
       IN [s1 EXCEPT !.capture = FALSE, !.mcs = NullCaret]

\* case kDoubleClickMessage
onDoubleClick(s, hit, o) ==
  IF ~hit.ok THEN Crash(s)
  ELSE IF ~Caret_isValid(s.lines, hit.c) THEN s
  ELSE LET leftCaret  == Caret_leftWord(s.lines, hit.c, o).c
           rightCaret == Caret_rightWord(s.lines, hit.c, o).c
       IN IF ~Caret_eq(leftCaret, rightCaret)
            THEN [s EXCEPT !.sel = Selection_new(leftCaret, rightCaret),
                           !.caret = rightCaret,
                           !.capture = TRUE]
            ELSE s

(***************************************************************************)
(* The state machine.                                                      *)
(***************************************************************************)

\* After construction: no text, no lines (onSetText has not run), a caret
\* at (0,0) over the line vector, default selection and drag origin.
TextEditConstructed ==
  /\ text = <<>>
  /\ m_lines = <<>>
  /\ m_caret = Caret(0, 0)
  /\ m_selection = Selection_clear
  /\ m_mouseCaretStart = NullCaret
  /\ clipboard = <<>>
  /\ clipReadable = FALSE
  /\ hasCapture = FALSE
  /\ crashed = FALSE

Init ==
  /\ TextEditConstructed
  /\ DockConstructed
  /\ LayoutsConstructed
  /\ ExtensionLoaded
  /\ BlinkConstructed

\* The carets stay inside the model's bounds (a caret on a line that does
\* not exist could otherwise be moved further away without end).
CaretBounded(c) == c.line \in 0..(MaxLen + 1) /\ c.pos \in (-1)..(MaxLen + 1)

\* Once the process has faulted the widget is gone: its state is no longer
\* of interest and is left at the constructed values.
Apply(r) ==
  /\ UNCHANGED outsideText
  /\ IF r.crashed
       THEN /\ crashed' = TRUE
            /\ text' = <<>> /\ m_lines' = <<>> /\ m_caret' = Caret(0, 0)
            /\ m_selection' = Selection_clear /\ m_mouseCaretStart' = NullCaret
            /\ clipboard' = <<>> /\ clipReadable' = FALSE /\ hasCapture' = FALSE
       ELSE /\ Len(r.text) <= MaxLen
            /\ CaretBounded(r.caret)
            /\ CaretBounded(r.sel.start) /\ CaretBounded(r.sel.end)
            /\ text' = r.text
            /\ m_lines' = r.lines
            /\ m_caret' = r.caret
            /\ m_selection' = r.sel
            /\ m_mouseCaretStart' = r.mcs
            /\ clipboard' = r.clip
            /\ clipReadable' = r.clipOK
            /\ hasCapture' = r.capture
            /\ crashed' = FALSE

\* A handler runs to its end; `outcome` gives its result under each oracle.
\* Where it reads or erases outside the valid range, every outcome the
\* oracle allows is a successor.
Run(outcome) ==
  /\ ~crashed
  /\ IF outcome[NoOracle].gar
       THEN \E o \in Oracles : Apply([outcome[o] EXCEPT !.gar = FALSE])
       ELSE Apply(outcome[NoOracle])

\* The key actions are the kKeyDownMessages that reach onKeyDown, that is,
\* those sent while the widget has the focus.
KeyLeft == \E ctrl \in BOOLEAN, shift \in BOOLEAN :
  Run([o \in Oracles |-> onKeyDown(St, Key("Left", ctrl, shift), o)])

KeyRight == \E ctrl \in BOOLEAN, shift \in BOOLEAN :
  Run([o \in Oracles |-> onKeyDown(St, Key("Right", ctrl, shift), o)])

KeyUp == \E shift \in BOOLEAN :
  Run([o \in Oracles |-> onKeyDown(St, Key("Up", FALSE, shift), o)])

KeyDown == \E shift \in BOOLEAN :
  Run([o \in Oracles |-> onKeyDown(St, Key("Down", FALSE, shift), o)])

KeyHome == \E shift \in BOOLEAN :
  Run([o \in Oracles |-> onKeyDown(St, Key("Home", FALSE, shift), o)])

KeyEnd == \E shift \in BOOLEAN :
  Run([o \in Oracles |-> onKeyDown(St, Key("End", FALSE, shift), o)])

KeyEnter ==
  Run([o \in Oracles |-> onKeyDown(St, Key("Enter", FALSE, FALSE), o)])

KeyBackspace == \E ctrl \in BOOLEAN :
  Run([o \in Oracles |-> onKeyDown(St, Key("Backspace", ctrl, FALSE), o)])

KeyDel == \E ctrl \in BOOLEAN :
  Run([o \in Oracles |-> onKeyDown(St, Key("Del", ctrl, FALSE), o)])

KeyChar == \E ch \in Chars, dead \in BOOLEAN :
  Run([o \in Oracles |-> onKeyDown(St, CharKey(ch, dead), o)])

\* Ctrl+X / cut()
Cut == Run([o \in Oracles |-> onKeyDown(St, Key("X", TRUE, FALSE), o)])

\* Ctrl+C / copy()
Copy == Run([o \in Oracles |-> onKeyDown(St, Key("C", TRUE, FALSE), o)])

\* What get_clipboard_text() can find: what was last put on the clipboard
\* here, or what another application has put there since (a text, or
\* something that is not a text).
ClipboardReads ==
  {[ok |-> clipReadable, t |-> clipboard], [ok |-> FALSE, t |-> <<>>]}
    \cup {[ok |-> TRUE, t |-> c] : c \in ClipTexts}

\* Ctrl+V / paste()
Paste == \E found \in ClipboardReads :
  Run([o \in Oracles |->
         onKeyDown([St EXCEPT !.clip = found.t, !.clipOK = found.ok],
                   Key("V", TRUE, FALSE), o)])

\* Ctrl+A / selectAll()
SelectAll == Run([o \in Oracles |-> onKeyDown(St, Key("A", TRUE, FALSE), o)])

MouseDown == \E shift \in BOOLEAN, hit \in HitTests(m_lines) :
  Run([o \in Oracles |-> onMouseDown(St, shift, hit)])

MouseMove == \E hit \in HitTests(m_lines) :
  /\ hasCapture
  /\ Run([o \in Oracles |-> onMouseMove(St, hit)])

MouseUp == \E shift \in BOOLEAN :
  Run([o \in Oracles |-> onMouseUp(St, shift)])

DoubleClick == \E hit \in HitTests(m_lines) :
  Run([o \in Oracles |-> onDoubleClick(St, hit, o)])

\* Widget::setText(t) called by the widget's owner: the text is stored and
\* onSetText() rebuilds the lines.  The caret and the selection stay.
SetText == \E t \in Texts :
  Run([o \in Oracles |-> onSetText([St EXCEPT !.text = t])])

\* The owner gives the freshly constructed widget its text.
FirstSetText == m_lines = <<>> /\ SetText

KeyEdit ==
  \/ KeyLeft \/ KeyRight \/ KeyUp \/ KeyDown \/ KeyHome \/ KeyEnd
  \/ KeyEnter \/ KeyBackspace \/ KeyDel \/ KeyChar

\* A widget that is given its text once and then edited by the user with
\* the keyboard, the clipboard and the mouse.
Next ==
  \/ KeyEdit
  \/ Cut \/ Copy \/ Paste \/ SelectAll
  \/ MouseDown \/ MouseMove \/ MouseUp \/ DoubleClick
  \/ FirstSetText

Spec == Init /\ [][Next]_vars

\* A widget edited with the keyboard and the clipboard whose owner replaces
\* the text at any time.
NextSetText ==
  \/ KeyEdit
  \/ Cut \/ Copy \/ Paste \/ SelectAll
  \/ SetText

SpecSetText == Init /\ [][NextSetText]_vars

(***************************************************************************)
(* The caret and selection operations taken alone: any text of the bound,  *)
(* split into its lines, and any caret in it.                              *)
(***************************************************************************)

\* The carets that are valid over `lines`.
ValidCarets(lines) ==
  UNION {{Caret(k - 1, p) : p \in 0..Len(lines[k].text)} : k \in 1..Len(lines)}

InitCaret ==
  /\ text \in CaretTexts
  /\ m_lines = BuildLines(text)
  /\ m_caret \in ValidCarets(m_lines)
  /\ m_selection = Selection_clear
  /\ m_mouseCaretStart = NullCaret
  /\ clipboard = <<>>
  /\ clipReadable = FALSE
  /\ hasCapture = FALSE
  /\ crashed = FALSE
  /\ DockConstructed
  /\ LayoutsConstructed
  /\ ExtensionLoaded
  /\ BlinkConstructed

\* One caret operation on a valid caret.
MoveCaret(m) ==
  /\ Caret_isValid(m_lines, m_caret)
  /\ m_caret' = m.c
  /\ UNCHANGED <<text, m_lines, m_selection, m_mouseCaretStart,
                 clipboard, clipReadable, hasCapture, crashed>>
  /\ UNCHANGED outsideText

CaretLeft == \E byWord \in BOOLEAN :
  MoveCaret(Caret_left(m_lines, m_caret, byWord, NoOracle))

CaretRight == \E byWord \in BOOLEAN :
  MoveCaret(Caret_right(m_lines, m_caret, byWord, NoOracle))

CaretUp == MoveCaret(Caret_up(m_lines, m_caret, NoOracle))

CaretDown == MoveCaret(Caret_down(m_lines, m_caret, NoOracle))

\* advanceBy(n) for an n that stays inside the text.
CaretAdvanceBy == \E n \in 1..MaxCaretLen :
  /\ Caret_absolutePos(m_lines, m_caret) + n <= Len(text)
  /\ MoveCaret(Moved(Caret_advanceBy(m_lines, m_caret, n), TRUE, FALSE))

\* Selection(m_caret, c) for a valid caret c.
SelectTo == \E c \in ValidCarets(m_lines) :
  /\ Caret_isValid(m_lines, m_caret)
  /\ m_selection' = Selection_new(m_caret, c)
  /\ UNCHANGED <<text, m_lines, m_caret, m_mouseCaretStart,
                 clipboard, clipReadable, hasCapture, crashed>>
  /\ UNCHANGED outsideText

NextCaret ==
  \/ CaretLeft \/ CaretRight \/ CaretUp \/ CaretDown
  \/ CaretAdvanceBy \/ SelectTo

SpecCaret == InitCaret /\ [][NextCaret]_vars

(***************************************************************************)
(* The Dock operations.  Each is an operator from heap to heap; `failed`   *)
(* records that an ASSERT of the code did not hold, `ret` is the returned  *)
(* pointer where there is one.                                             *)
(***************************************************************************)

Heap == [sides |-> m_sides, aligns |-> m_aligns, sizes |-> m_sizes,
         autoDelete |-> m_autoDelete, customizing |-> m_customizing,
         parent |-> parent, allocated |-> allocated,
         failed |-> FALSE, ret |-> NULL]

MinOf(S) == CHOOSE i \in S : \A j \in S : i <= j

side_index(side) ==
  CASE side = "TOP"    -> kTopIndex
    [] side = "BOTTOM" -> kBottomIndex
    [] side = "LEFT"   -> kLeftIndex
    [] side = "RIGHT"  -> kRightIndex
    [] OTHER           -> kCenterIndex

side_from_index(index) ==
  CASE index = kTopIndex    -> "TOP"
    [] index = kBottomIndex -> "BOTTOM"
    [] index = kLeftIndex   -> "LEFT"
    [] index = kRightIndex  -> "RIGHT"
    [] OTHER                -> "CENTER"

\* Widget::children(), addChild, removeChild, replaceChild,
\* removeAllChildren: the children list and the parent pointers.
children(h, d) == {n \in Nodes : h.parent[n] = d}

addChild(h, d, w) == [h EXCEPT !.parent[w] = d]

removeChild_KeepsParent(h, d, w) == h

removeChild(h, d, w) ==
  IF h.parent[w] = d THEN [h EXCEPT !.parent[w] = NULL] ELSE h

replaceChild(h, d, oldChild, newChild) ==
  IF h.parent[oldChild] = d
    THEN [h EXCEPT !.parent[oldChild] = NULL, !.parent[newChild] = d]
    ELSE h

removeAllChildren(h, d) ==
  [h EXCEPT !.parent = [n \in Nodes |-> IF @[n] = d THEN NULL ELSE @[n]]]

\* Dock::calcAlign
RECURSIVE calcAlign(_, _, _)
calcAlign(h, d, i) ==
  LET widget == h.sides[d][i]
  IN IF widget = NULL THEN NoAlign
     ELSE IF widget \in DockIds THEN calcAlign(h, widget, i)
     ELSE dockableAt(widget)

\* Dock::setSide
setSide(h, d, i, newWidget) ==
  LET h1 == [h EXCEPT !.sides[d][i] = newWidget]
      h2 == [h1 EXCEPT !.aligns[d][i] = calcAlign(h1, d, i)]
  IN IF newWidget # NULL
       THEN [h2 EXCEPT !.sizes[d][i] = sizeHint(newWidget)]
       ELSE h2

\* Dock::dock
RECURSIVE dock(_, _, _, _, _)

\* dock that hands the widget to the nested Dock's slot `side`, not to its
\* Center.
dock_SameSide(h, this, side, widget, prefSize) ==
  LET i == side_index(side)
  IN IF h.sides[this][i] = NULL
       THEN LET h1 == addChild(setSide(h, this, i, widget), this, widget)
            IN IF prefSize # Size(0, 0)
                 THEN [h1 EXCEPT !.sizes[this][i] = prefSize]
                 ELSE h1
     ELSE IF h.sides[this][i] \in DockIds
       THEN dock(h, h.sides[this][i], side, widget, prefSize)
     ELSE [h EXCEPT !.failed = TRUE]

dock(h, this, side, widget, prefSize) ==
  LET i == side_index(side)
  IN IF h.sides[this][i] = NULL
       THEN LET h1 == addChild(setSide(h, this, i, widget), this, widget)
            IN IF prefSize # Size(0, 0)
                 THEN [h1 EXCEPT !.sizes[this][i] = prefSize]
                 ELSE h1
     ELSE IF h.sides[this][i] \in DockIds
       THEN dock(h, h.sides[this][i], "CENTER", widget, prefSize)
     ELSE [h EXCEPT !.failed = TRUE]

\* new Dock: the allocator hands out a Dock that is not allocated; which
\* one does not matter, the model takes the first.
FreeDocks(h) == DockPool \ h.allocated

NewDockId(h) ==
  DockSeq[MinOf({k \in 1..MaxNewDocks : DockSeq[k] \notin h.allocated})]

\* `new Dock` followed by the two assignments that subdock() and
\* dockRelativeTo() make: m_autoDelete = true, m_customizing = this's.
new_Dock(h, n, this) ==
  [h EXCEPT !.allocated = @ \cup {n},
            !.sides[n] = NewDock.sides,
            !.aligns[n] = NewDock.aligns,
            !.sizes[n] = NewDock.sizes,
            !.autoDelete[n] = TRUE,
            !.customizing[n] = h.customizing[this],
            !.parent[n] = NULL]

\* `delete subdock`: the Dock leaves its parent and exists no more.  The
\* fields of a Dock that does not exist are kept at the constructed values.
delete_Dock(h, n) ==
  [h EXCEPT !.allocated = @ \ {n},
            !.sides[n] = NewDock.sides,
            !.aligns[n] = NewDock.aligns,
            !.sizes[n] = NewDock.sizes,
            !.autoDelete[n] = FALSE,
            !.customizing[n] = FALSE,
            !.parent = [m \in Nodes |->
                          IF m = n \/ @[m] = n THEN NULL ELSE @[m]]]

\* dockRelativeTo that does not put the new Dock into the parent's slot.
dockRelativeTo_NoSplice(h, this, relative, side, widget, prefSize) ==
  LET par == h.parent[relative]
      n   == NewDockId(h)
      h2  == replaceChild(new_Dock(h, n, this), par, relative, n)
      h3  == dock(h2, n, "CENTER", relative, Size(0, 0))
  IN IF par = NULL THEN [h EXCEPT !.failed = TRUE]
     ELSE dock(h3, n, side, widget, prefSize)

\* Dock::dockRelativeTo
dockRelativeTo(h, this, relative, side, widget, prefSize) ==
  LET par == h.parent[relative]
      n   == NewDockId(h)
      h1  == new_Dock(h, n, this)
      h2  == replaceChild(h1, par, relative, n)
      h3  == dock(h2, n, "CENTER", relative, Size(0, 0))
      h4  == dock(h3, n, side, widget, prefSize)
      at  == {i \in Slots : h4.sides[par][i] = relative}
  IN IF par = NULL THEN [h EXCEPT !.failed = TRUE]
     ELSE IF at = {} THEN h4
     ELSE setSide(h4, par, MinOf(at), n)

\* Dock::undock
RECURSIVE undock(_, _, _)

\* undock that leaves the stored size of the emptied slot as it was.
undock_KeepsSize(h, this, widget) ==
  LET parentDock == h.parent[widget]
      h1 == removeChild(h, parentDock, widget)
      at == {i \in Slots : h1.sides[parentDock][i] = widget}
      h2 == IF at = {} THEN h1
            ELSE setSide(h1, parentDock, MinOf(at), NULL)
  IN IF parentDock = NULL THEN h
     ELSE IF parentDock # this /\ children(h2, parentDock) = {}
       THEN undock(h2, this, parentDock)
     ELSE h2

\* undock that leaves an emptied nested Dock where it is.
undock_NoCascade(h, this, widget) ==
  LET parentDock == h.parent[widget]
      h1 == removeChild(h, parentDock, widget)
      at == {i \in Slots : h1.sides[parentDock][i] = widget}
  IN IF parentDock = NULL THEN h
     ELSE IF at = {} THEN h1
     ELSE [setSide(h1, parentDock, MinOf(at), NULL)
             EXCEPT !.sizes[this][MinOf(at)] = Size(0, 0)]

undock(h, this, widget) ==
  LET parentDock == h.parent[widget]
      h1 == removeChild(h, parentDock, widget)
      at == {i \in Slots : h1.sides[parentDock][i] = widget}
      h2 == IF at = {} THEN h1
            ELSE [setSide(h1, parentDock, MinOf(at), NULL)
                    EXCEPT !.sizes[this][MinOf(at)] = Size(0, 0)]
  IN IF parentDock = NULL THEN h
     ELSE IF parentDock # this /\ children(h2, parentDock) = {}
       THEN undock(h2, this, parentDock)
     ELSE h2

\* The Docks at and below d.
RECURSIVE Subtree(_, _)
Subtree(h, d) ==
  {d} \cup UNION {Subtree(h, n) : n \in children(h, d) \cap DockIds}

\* whichSideChildIsDocked that also looks into the nested Docks of a slot.
whichSideChildIsDocked_Deep(h, this, widget) ==
  LET at == {i \in Slots :
               \/ h.sides[this][i] = widget
               \/ /\ h.sides[this][i] \in DockIds
                  /\ h.parent[widget] \in Subtree(h, h.sides[this][i])}
  IN IF at = {} THEN NoSide ELSE side_from_index(MinOf(at))

\* Dock::whichSideChildIsDocked
whichSideChildIsDocked(h, this, widget) ==
  LET at == {i \in Slots : h.sides[this][i] = widget}
  IN IF at = {} THEN NoSide ELSE side_from_index(MinOf(at))

\* getUserDefinedSizeAtSide that does not look at the cached alignment.
getUserDefinedSizeAtSide_AnyAlign(h, this, side) ==
  h.sizes[this][side_index(side)]

\* Dock::getUserDefinedSizeAtSide
getUserDefinedSizeAtSide(h, this, side) ==
  LET i == side_index(side)
  IN IF EXPANSIVE \in h.aligns[this][i] THEN h.sizes[this][i]
     ELSE Size(0, 0)

\* subdock that replaces the old occupant without taking it into the new
\* Dock's Center.
subdock_DropsOccupant(h, this, side) ==
  LET i == side_index(side)
      oldWidget == h.sides[this][i]
      n  == NewDockId(h)
      h1 == setSide(new_Dock(h, n, this), this, i, n)
      h2 == IF oldWidget # NULL
              THEN replaceChild(h1, this, oldWidget, n)
              ELSE addChild(h1, this, n)
  IN IF oldWidget \in DockIds THEN [h EXCEPT !.ret = oldWidget]
     ELSE [h2 EXCEPT !.ret = n]

\* Dock::subdock
subdock(h, this, side) ==
  LET i == side_index(side)
      oldWidget == h.sides[this][i]
      n  == NewDockId(h)
      h1 == setSide(new_Dock(h, n, this), this, i, n)
      h2 == IF oldWidget # NULL
              THEN dock(replaceChild(h1, this, oldWidget, n),
                        n, "CENTER", oldWidget, Size(0, 0))
              ELSE addChild(h1, this, n)
  IN IF oldWidget \in DockIds THEN [h EXCEPT !.ret = oldWidget]
     ELSE [h2 EXCEPT !.ret = n]

\* Dock::resetDocks; resetSides is its loop from slot i on.
RECURSIVE resetDocks(_, _), resetSides(_, _, _)
resetSides(h, this, i) ==
  IF i > kCenterIndex THEN h
  ELSE LET child == h.sides[this][i]
           h1 == IF child \in DockIds
                   THEN LET r == resetDocks(h, child)
                        IN IF r.autoDelete[child] THEN delete_Dock(r, child)
                           ELSE r
                   ELSE h
       IN IF child = NULL THEN resetSides(h, this, i + 1)
          ELSE resetSides([h1 EXCEPT !.sides[this][i] = NULL], this, i + 1)

resetDocks(h, this) == removeAllChildren(resetSides(h, this, kTopIndex), this)

\* Dock::setCustomizing; customizeSides is its loop from slot i on.
RECURSIVE setCustomizing(_, _, _), customizeSides(_, _, _, _)
customizeSides(h, this, enable, i) ==
  IF i > kCenterIndex THEN h
  ELSE LET child == h.sides[this][i]
       IN customizeSides(IF child \in DockIds
                           THEN setCustomizing(h, child, enable)
                           ELSE h,
                         this, enable, i + 1)

setCustomizing(h, this, enable) ==
  customizeSides([h EXCEPT !.customizing[this] = enable],
                 this, enable, kTopIndex)

(***************************************************************************)
(* The Dock tree under the calls its users make: the operations are called *)
(* on the root Dock or on a Dock nested in it (the pointer subdock() gave  *)
(* out, or a widget's parent()), with widgets that are not docked when     *)
(* they are docked and leaf widgets when they are undocked.  A call that   *)
(* trips an ASSERT is not a step.                                          *)
(***************************************************************************)

\* The Docks of the tree: the root and every Dock with a parent.
DocksInTree(h) == {d \in h.allocated : d = RootDock \/ h.parent[d] # NULL}

\* A Dock operation called, at any time.
ApplyCall(h) ==
  /\ ~h.failed
  /\ calls < MaxCalls
  /\ calls' = calls + 1
  /\ m_sides' = h.sides
  /\ m_aligns' = h.aligns
  /\ m_sizes' = h.sizes
  /\ m_autoDelete' = h.autoDelete
  /\ m_customizing' = h.customizing
  /\ parent' = h.parent
  /\ allocated' = h.allocated
  /\ UNCHANGED <<textVars, mouseVars, layoutsVars, extVars, blinkVars>>

\* A Dock operation called before the first mouse message.
ApplyHeap(h) ==
  /\ msgs = 0
  /\ ApplyCall(h)

DoDock == \E this \in DocksInTree(Heap), side \in CallSides, w \in Leaves,
             prefSize \in PrefSizes :
  /\ parent[w] = NULL
  /\ ApplyHeap(dock(Heap, this, side, w, prefSize))

DoDockRelativeTo ==
  \E this \in DocksInTree(Heap), relative \in Nodes, side \in CallSides,
     w \in Leaves, prefSize \in PrefSizes :
    /\ parent[relative] # NULL
    /\ parent[w] = NULL
    /\ FreeDocks(Heap) # {}
    /\ ApplyHeap(dockRelativeTo(Heap, this, relative, side, w, prefSize))

DoUndock == \E this \in DocksInTree(Heap), w \in Leaves :
  ApplyHeap(undock(Heap, this, w))

DoSubdock == \E this \in DocksInTree(Heap), side \in CallSides :
  /\ (m_sides[this][side_index(side)] \in DockIds \/ FreeDocks(Heap) # {})
  /\ ApplyHeap(subdock(Heap, this, side))

DoResetDocks == \E this \in DocksInTree(Heap) :
  ApplyHeap(resetDocks(Heap, this))

DoSetCustomizing == \E enable \in BOOLEAN :
  ApplyHeap(setCustomizing(Heap, RootDock, enable))

NextDock ==
  \/ DoDock \/ DoDockRelativeTo \/ DoUndock
  \/ DoSubdock \/ DoResetDocks \/ DoSetCustomizing

SpecDock == Init /\ [][NextDock]_vars

(***************************************************************************)
(* The mouse protocol of a Dock: Dock::onProcessMessage.  The messages go  *)
(* to the Dock under the pointer (mouseDock); set-cursor, which comes with *)
(* every pointer motion over a Dock that holds no capture, recomputes its  *)
(* hit, so only that Dock's m_hit, m_dragging, m_startPos and m_startSize  *)
(* matter.  The widgets are visible and not decorative, and neither leaf   *)
(* is the timeline.                                                        *)
(***************************************************************************)

\* gfx::Rect and Rect::contains.
Rect(x, y, w, h) == [x |-> x, y |-> y, w |-> w, h |-> h]
contains(rc, pos) ==
  /\ pos.x >= rc.x /\ pos.x < rc.x + rc.w
  /\ pos.y >= rc.y /\ pos.y < rc.y + rc.h

\* The pointer positions of the messages and the bounds a Dock can have:
\* one with its origin at (0,0) and one away from it.
Coords == {0, 3, 5}
Points == {Point(x, y) : x \in Coords, y \in Coords}
DockBounds == {Rect(0, 0, 6, 6), Rect(3, 3, 6, 6)}

\* BUFFER_ZONE of the mouse-move handler, in the units of Coords.
BUFFER_ZONE == 2

\* Widget::sizeHint() in numbers, and the width and height of a stored size.
hintSize(n) == IF n \in DockIds THEN Size(60, 60) ELSE Size(30, 20)
SizeW(sz) == IF "hintOf" \in DOMAIN sz THEN hintSize(sz.hintOf).w ELSE sz.w
SizeH(sz) == IF "hintOf" \in DOMAIN sz THEN hintSize(sz.hintOf).h ELSE sz.h

\* The Dock under the pointer with its tree.
Mouse == Heap @@ [this |-> mouseDock, hit |-> m_hit, dragging |-> m_dragging,
                  startPos |-> m_startPos, startSize |-> m_startSize,
                  capture |-> dockCapture,
                  resized |-> FALSE, userResized |-> FALSE]

\* Dock::calcHit at some position: no hit, the separator of an occupied
\* side slot whose cached alignment has EXPANSIVE (the Center slot has no
\* separator), or, while customizing, the handle of a Dockable child whose
\* dockHandleSide() is TOP or LEFT (the placeholder's is 0, a nested Dock is
\* no Dockable).  The rectangles of a layout do not overlap.
calcHit(h, this) ==
  {NoHit}
  \cup {[NoHit EXCEPT !.sideIndex = i] :
          i \in {j \in Slots \ {kCenterIndex} :
                   /\ h.sides[this][j] # NULL
                   /\ EXPANSIVE \in h.aligns[this][j]}}
  \cup {[NoHit EXCEPT !.dockable = w] :
          w \in {v \in Leaves : /\ h.customizing[this]
                                /\ h.parent[v] = this
                                /\ \E j \in Slots : h.sides[this][j] = v}}

\* kSetCursorMessage, with the hit calcHit computes at the pointer.
Dock_onSetCursor(s, hit) ==
  IF ~s.capture THEN [s EXCEPT !.hit = hit] ELSE s

\* kMouseDownMessage.
Dock_onMouseDown(s, pos, right) ==
  IF s.hit.sideIndex >= 0 \/ s.hit.dockable # NULL
    THEN [s EXCEPT
            !.startPos = pos,
            !.startSize = IF s.hit.sideIndex >= 0
                            THEN s.sizes[s.this][s.hit.sideIndex] ELSE @,
            !.capture = TRUE,
            !.dragging = IF s.hit.dockable # NULL /\ ~right THEN TRUE ELSE @]
    ELSE s

\* The resize branch of kMouseMoveMessage: the new m_sizes[m_hit.sideIndex].
resizedSize_SameSign(s, pos) ==
  LET i == s.hit.sideIndex
      sz == s.sizes[s.this][i]
  IN IF i \in {kTopIndex, kBottomIndex}
       THEN Size(SizeW(sz), SizeH(s.startSize) + pos.y - s.startPos.y)
     ELSE IF i \in {kLeftIndex, kRightIndex}
       THEN Size(SizeW(s.startSize) + pos.x - s.startPos.x, SizeH(sz))
     ELSE sz

resizedSize(s, pos) ==
  LET i == s.hit.sideIndex
      sz == s.sizes[s.this][i]
  IN IF i = kTopIndex
       THEN Size(SizeW(sz), SizeH(s.startSize) + pos.y - s.startPos.y)
     ELSE IF i = kBottomIndex
       THEN Size(SizeW(sz), SizeH(s.startSize) - pos.y + s.startPos.y)
     ELSE IF i = kLeftIndex
       THEN Size(SizeW(s.startSize) + pos.x - s.startPos.x, SizeH(sz))
     ELSE IF i = kRightIndex
       THEN Size(SizeW(s.startSize) - pos.x + s.startPos.x, SizeH(sz))
     ELSE sz

\* The side the drag branch of kMouseMoveMessage computes for the pointer.
newTargetSide(w, originSide, pos, bounds) ==
  IF /\ "LEFT" \in dockableAt(w) /\ originSide # "LEFT"
     /\ pos.x < bounds.x + BUFFER_ZONE
    THEN "LEFT"
  ELSE IF /\ "RIGHT" \in dockableAt(w) /\ originSide # "RIGHT"
          /\ pos.x > bounds.w - BUFFER_ZONE
    THEN "RIGHT"
  ELSE IF /\ "TOP" \in dockableAt(w) /\ originSide # "TOP"
          /\ pos.y < bounds.y + BUFFER_ZONE
    THEN "TOP"
  ELSE IF /\ "BOTTOM" \in dockableAt(w) /\ originSide # "BOTTOM"
          /\ pos.y > bounds.h - BUFFER_ZONE
    THEN "BOTTOM"
  ELSE NoTarget

\* "Undock the placeholder before moving it, if it exists".
undockPlaceholder_Never(s) == s

undockPlaceholder(s) ==
  IF s.parent[Placeholder] # NULL
    THEN undock(s, s.parent[Placeholder], Placeholder)
    ELSE s

\* kMouseMoveMessage; bounds is parentDock->bounds().
Dock_onMouseMove(s, pos, bounds) ==
  LET dragWidget == s.hit.dockable
      parentDock == s.parent[dragWidget]
      originSide == whichSideChildIsDocked(s, parentDock, dragWidget)
      target == newTargetSide(dragWidget, originSide, pos, bounds)
      s1 == undockPlaceholder([s EXCEPT !.hit.targetSide = target])
  IN IF ~s.capture THEN s
     ELSE IF s.hit.sideIndex >= 0
       THEN [s EXCEPT !.sizes[s.this][s.hit.sideIndex] = resizedSize(s, pos),
                      !.resized = TRUE]
     ELSE IF s.hit.dockable # NULL /\ s.dragging
       THEN IF parentDock \notin DockIds THEN [s EXCEPT !.failed = TRUE]
            ELSE IF ~contains(bounds, pos) THEN s
            ELSE IF s.hit.targetSide = target THEN s
            ELSE IF target # NoTarget
              THEN dock(s1, parentDock, target, Placeholder,
                        sizeHint(dragWidget))
            ELSE s1
     ELSE s

\* dockNRoll of kMouseUpMessage, for a widget that is not the timeline.
dockNRoll(s, widgetDock, dockableWidget, side) ==
  [dock(undock(s, widgetDock, dockableWidget),
        widgetDock, side, dockableWidget, Size(0, 0))
     EXCEPT !.userResized = TRUE]

\* The items of the context menu of kMouseUpMessage.
menuSides(s) ==
  LET w == s.hit.dockable
      currentSide == whichSideChildIsDocked(s, s.parent[w], w)
  IN {side \in {"LEFT", "RIGHT", "TOP", "BOTTOM"} :
        side \in dockableAt(w) /\ currentSide # side}

\* kMouseUpMessage; choice is the menu item the user clicks when the menu
\* is shown, or NULL when the menu is dismissed.
Dock_onMouseUp(s, right, choice) ==
  LET s1 == undockPlaceholder([s EXCEPT !.capture = FALSE])
      w == s.hit.dockable
      widgetDock == s1.parent[w]
      s2 == IF w = NULL THEN s1
            ELSE IF widgetDock \notin DockIds THEN [s1 EXCEPT !.failed = TRUE]
            ELSE IF right /\ ~s.dragging
              THEN IF choice \in menuSides(s1)
                     THEN dockNRoll(s1, widgetDock, w, choice)
                     ELSE s1
            ELSE IF s.hit.targetSide # NoTarget /\ s.dragging
              THEN IF s.hit.targetSide \in dockableAt(w)
                     THEN dockNRoll(s1, widgetDock, w, s.hit.targetSide)
                     ELSE [s1 EXCEPT !.failed = TRUE]
            ELSE s1
  IN IF ~s.capture THEN s
     ELSE [s2 EXCEPT !.dragging = FALSE, !.hit = NoHit]

\* A message handled: the Dock's fields and the tree as the handler leaves
\* them.  An ASSERT that fails is compiled out of a release build, which
\* goes on.  The Dock operations are called before the first message, and
\* the messages go to a tree that at most MaxTreeCalls of them built.
ApplyMouse(s) ==
  /\ calls <= MaxTreeCalls
  /\ msgs < MaxMsgs
  /\ msgs' = msgs + 1
  /\ m_sides' = s.sides
  /\ m_aligns' = s.aligns
  /\ m_sizes' = s.sizes
  /\ m_autoDelete' = s.autoDelete
  /\ m_customizing' = s.customizing
  /\ parent' = s.parent
  /\ allocated' = s.allocated
  /\ mouseDock' = s.this
  /\ m_hit' = s.hit
  /\ m_dragging' = s.dragging
  /\ m_startPos' = s.startPos
  /\ m_startSize' = s.startSize
  /\ dockCapture' = s.capture
  /\ UNCHANGED <<textVars, calls, layoutsVars, extVars, blinkVars>>

\* Set-cursor goes to the Dock under the pointer, or to the Dock that holds
\* the capture.
DockSetCursor ==
  \E this \in DocksInTree(Heap) :
    /\ dockCapture => this = mouseDock
    /\ \E hit \in calcHit(Heap, this) :
         ApplyMouse(Dock_onSetCursor([Mouse EXCEPT !.this = this], hit))

DockMouseDown == \E pos \in Points, right \in BOOLEAN :
  ApplyMouse(Dock_onMouseDown(Mouse, pos, right))

DockMouseMove == \E pos \in Points, bounds \in DockBounds :
  ApplyMouse(Dock_onMouseMove(Mouse, pos, bounds))

DockMouseUp ==
  \E right \in BOOLEAN, choice \in {NULL, "LEFT", "RIGHT", "TOP", "BOTTOM"} :
  ApplyMouse(Dock_onMouseUp(Mouse, right, choice))

NextDockMouse ==
  \/ DoDock \/ DoDockRelativeTo \/ DoUndock
  \/ DoSubdock \/ DoResetDocks \/ DoSetCustomizing
  \/ DockSetCursor \/ DockMouseDown \/ DockMouseMove \/ DockMouseUp

SpecDockMouse == Init /\ [][NextDockMouse]_vars

\* The mouse messages of both widgets.  A TextEdit and a Dock share no
\* state, so a behaviour sends its messages to one of them.
NextMouse ==
  \/ /\ DockConstructed
     /\ (FirstSetText \/ MouseDown \/ MouseMove \/ MouseUp \/ DoubleClick)
  \/ /\ TextEditConstructed
     /\ NextDockMouse

SpecMouse == Init /\ [][NextMouse]_vars

\* The Dock's owner calls dock, undock and setCustomizing between the mouse
\* messages, while the Dock does not hold the capture: a keyboard shortcut
\* or a command changes the tree or the mode while the pointer rests.
CallDock == \E this \in DocksInTree(Heap), side \in CallSides, w \in Leaves,
               prefSize \in PrefSizes :
  /\ ~dockCapture
  /\ parent[w] = NULL
  /\ ApplyCall(dock(Heap, this, side, w, prefSize))

CallUndock == \E this \in DocksInTree(Heap), w \in Leaves :
  /\ ~dockCapture
  /\ ApplyCall(undock(Heap, this, w))

CallSetCustomizing == \E enable \in BOOLEAN :
  /\ ~dockCapture
  /\ ApplyCall(setCustomizing(Heap, RootDock, enable))

NextDockEntry ==
  \/ CallDock \/ CallUndock \/ CallSetCustomizing
  \/ DockSetCursor \/ DockMouseDown \/ DockMouseUp

SpecDockEntry == Init /\ [][NextDockEntry]_vars

(***************************************************************************)
(* Layouts: the collection of Layout objects and its file.  A Layout has   *)
(* an id, a name and the <layout> element it was made from; the element    *)
(* carries the id and the name as attributes and the serialized tree.      *)
(***************************************************************************)

\* Layout::kDefault and Layout::kMirroredDefault.
kDefault == "_default_"
kMirroredDefault == "_mirrored_default_"

\* The ids, and the serialized trees, of the layouts of the model.
LayoutIds == {"foo", "bar", kDefault}
LayoutTrees == {"t1", "t2"}

\* A <layout> element, Layout::MakeFromDock and Layout::MakeFromXmlElement.
LayoutElem(id, name, tree) == [id |-> id, name |-> name, tree |-> tree]
MakeFromDock(id, name, tree) ==
  [id |-> id, name |-> name, elem |-> LayoutElem(id, name, tree)]
MakeFromXmlElement(layoutElem) ==
  [id |-> layoutElem.id, name |-> layoutElem.name, elem |-> layoutElem]

\* The layouts the callers of addLayout make.
NewLayouts == {MakeFromDock(id, "name", t) : id \in LayoutIds, t \in LayoutTrees}

\* Layout::matchId and Layout::isDefault.
matchId(l, id) == l.id = id
isDefault(l) == l.id \in {kDefault, kMirroredDefault}

\* std::find_if over m_layouts with matchId: the first position, or 0.
findById(layouts, id) ==
  LET at == {k \in 1..Len(layouts) : matchId(layouts[k], id)}
  IN IF at = {} THEN 0 ELSE MinOf(at)

\* Layouts::getById
getById(layouts, id) ==
  IF findById(layouts, id) # 0 THEN layouts[findById(layouts, id)] ELSE NULL

\* Layouts::addLayout: the vector it leaves and the value it returns.
addLayout_CountsDefault(layouts, layout) ==
  LET it == findById(layouts, layout.id)
  IN IF it # 0
       THEN [layouts |-> [layouts EXCEPT ![it] = layout], ret |-> FALSE]
     ELSE [layouts |-> Append(layouts, layout), ret |-> TRUE]

addLayout(layouts, layout) ==
  LET it == findById(layouts, layout.id)
  IN IF it # 0
       THEN [layouts |-> [layouts EXCEPT ![it] = layout], ret |-> FALSE]
     ELSE IF isDefault(layout)
       THEN [layouts |-> Append(layouts, layout), ret |-> FALSE]
     ELSE [layouts |-> Append(layouts, layout), ret |-> TRUE]

\* Layouts::save: the document written, one clone of each layout's element
\* in the order of the vector.
save_UserOnly(layouts) ==
  Document(SelectSeq([k \in 1..Len(layouts) |-> layouts[k].elem],
                     LAMBDA e : e.id \notin {kDefault, kMirroredDefault}))

save(layouts) == Document([k \in 1..Len(layouts) |-> layouts[k].elem])

\* Layouts::load into an empty vector.  failAt = k > 0: making or appending
\* the k-th Layout throws (std::bad_alloc, or whatever MakeFromXmlElement
\* throws on an element it cannot read); failAt = 0: nothing throws.
load(file, failAt) ==
  LET n == IF failAt = 0 THEN Len(file.elems) ELSE failAt - 1
  IN [k \in 1..n |-> MakeFromXmlElement(file.elems[k])]

\* Layouts::Layouts(): the vector after the constructor.  open_xml throws
\* on a file it cannot parse, before anything is appended; the constructor
\* catches every std::exception and goes on with the vector as it is.
Layouts_ctor(file, failAt) ==
  IF file.kind = "missing" THEN <<>>
  ELSE IF file.kind = "unparsable" THEN <<>>
  ELSE load(file, failAt)

\* The Layouts object in use: layouts are added, saved, the object is
\* destroyed at exit (which saves) and constructed again at the next start;
\* between two runs the file can be damaged.
AddLayout == \E l \in NewLayouts :
  /\ layoutsAlive
  /\ m_layouts' = addLayout(m_layouts, l).layouts
  /\ UNCHANGED <<layoutsAlive, storage>>
  /\ UNCHANGED <<textVars, dockVars, mouseVars, extVars, blinkVars>>

SaveUserLayouts ==
  /\ layoutsAlive
  /\ storage' = save(m_layouts)
  /\ UNCHANGED <<m_layouts, layoutsAlive>>
  /\ UNCHANGED <<textVars, dockVars, mouseVars, extVars, blinkVars>>

DestroyLayouts ==
  /\ layoutsAlive
  /\ storage' = save(m_layouts)
  /\ layoutsAlive' = FALSE
  /\ m_layouts' = <<>>
  /\ UNCHANGED <<textVars, dockVars, mouseVars, extVars, blinkVars>>

DamageFile ==
  /\ ~layoutsAlive
  /\ storage.kind = "doc"
  /\ storage' = Unparsable
  /\ UNCHANGED <<m_layouts, layoutsAlive>>
  /\ UNCHANGED <<textVars, dockVars, mouseVars, extVars, blinkVars>>

ConstructLayouts ==
  /\ ~layoutsAlive
  /\ \E failAt \in 0..Len(storage.elems) :
       m_layouts' = Layouts_ctor(storage, failAt)
  /\ layoutsAlive' = TRUE
  /\ UNCHANGED storage
  /\ UNCHANGED <<textVars, dockVars, mouseVars, extVars, blinkVars>>

NextLayouts ==
  \/ AddLayout \/ SaveUserLayouts \/ DestroyLayouts
  \/ DamageFile \/ ConstructLayouts

SpecLayouts == Init /\ [][NextLayouts]_vars

(***************************************************************************)
(* An extension with scripts: what its init script registers, and what    *)
(* disabling it or running the exit actions takes away.                    *)
(***************************************************************************)

\* The calls on `plugin` that init(plugin) of the extension's script makes.
NewMenuGroup(id) == [op |-> "newMenuGroup", id |-> id]
DeleteMenuGroup(id) == [op |-> "deleteMenuGroup", id |-> id]
NewCommand(id) == [op |-> "newCommand", id |-> id]
DeleteCommand(id) == [op |-> "deleteCommand", id |-> id]

InitScript_KeepsCommand ==
  << NewMenuGroup("new_group_id"), NewMenuGroup("new_group_id_2"),
     NewMenuGroup("new_group_id_3"), DeleteMenuGroup("new_group_id_3"),
     NewCommand("TestCommand"), NewCommand("DeleteMeCommand") >>

InitScript ==
  << NewMenuGroup("new_group_id"), NewMenuGroup("new_group_id_2"),
     NewMenuGroup("new_group_id_3"), DeleteMenuGroup("new_group_id_3"),
     NewCommand("TestCommand"), NewCommand("DeleteMeCommand"),
     DeleteCommand("DeleteMeCommand") >>

\* The state of the extension and of Commands.
Ext == [enabled |-> extEnabled, initialized |-> extInitialized,
        commands |-> commands, items |-> pluginItems, removed |-> removed]

\* One call of the script on `plugin`: a new command is registered in
\* Commands, a new command or menu group is remembered as an item of the
\* plugin; a deleted one is unregistered and forgotten, without a signal.
pluginCall(e, c) ==
  LET item == [type |-> IF c.op \in {"newCommand", "deleteCommand"}
                          THEN "command" ELSE "group",
               id |-> c.id]
  IN IF c.op = "newCommand"
       THEN [e EXCEPT !.commands = @ \cup {c.id}, !.items = Append(@, item)]
     ELSE IF c.op = "newMenuGroup"
       THEN [e EXCEPT !.items = Append(@, item)]
     ELSE IF c.op = "deleteCommand"
       THEN [e EXCEPT !.commands = @ \ {c.id},
                      !.items = SelectSeq(@, LAMBDA x : x # item)]
     ELSE [e EXCEPT !.items = SelectSeq(@, LAMBDA x : x # item)]

\* The script's calls from the k-th on.
RECURSIVE runScript(_, _, _)
runScript(e, script, k) ==
  IF k > Len(script) THEN e
  ELSE runScript(pluginCall(e, script[k]), script, k + 1)

\* Extension::initScripts: init(plugin) runs.
initScripts(e) ==
  IF e.initialized THEN e
  ELSE [runScript(e, InitScript, 1) EXCEPT !.initialized = TRUE]

\* The items from the k-th down, removed: a command is unregistered and
\* MenuItemRemoveCommand fires, for a menu group MenuGroupRemove fires.
RECURSIVE removeItems(_, _)
removeItems(e, k) ==
  IF k = 0 THEN [e EXCEPT !.items = <<>>]
  ELSE removeItems([e EXCEPT !.commands = IF e.items[k].type = "command"
                                            THEN @ \ {e.items[k].id} ELSE @,
                             !.removed = Append(@, e.items[k])],
                   k - 1)

\* Extension::exitScripts: exit(plugin) runs (it does nothing), then the
\* items of the plugin are removed, the last created first.
exitScripts(e) ==
  IF ~e.initialized THEN e
  ELSE [removeItems([e EXCEPT !.removed = <<>>], Len(e.items))
          EXCEPT !.initialized = FALSE]

\* Extensions::executeInitActions: the scripts of every enabled extension.
executeInitActions(e) == IF e.enabled THEN initScripts(e) ELSE e

\* Extensions::enableExtension
enableExtension(e, state) ==
  IF state THEN initScripts([e EXCEPT !.enabled = TRUE])
  ELSE exitScripts([e EXCEPT !.enabled = FALSE])

\* Extensions::executeExitActions
executeExitActions(e) == exitScripts(e)

ApplyExt(e) ==
  /\ extEnabled' = e.enabled
  /\ extInitialized' = e.initialized
  /\ commands' = e.commands
  /\ pluginItems' = e.items
  /\ removed' = e.removed
  /\ inits' = IF e.initialized /\ ~extInitialized THEN inits + 1 ELSE inits
  /\ inits' <= MaxInits
  /\ UNCHANGED prefCount
  /\ UNCHANGED <<textVars, dockVars, mouseVars, layoutsVars, blinkVars>>

ExecuteInitActions == ApplyExt(executeInitActions(Ext))

EnableExtension == \E state \in BOOLEAN : ApplyExt(enableExtension(Ext, state))

ExecuteExitActions == ApplyExt(executeExitActions(Ext))

\* Context::executeCommand of a registered command; TestCommand counts its
\* runs in the preferences of the plugin.
ExecuteCommand == \E c \in commands :
  /\ prefCount < MaxRuns
  /\ prefCount' = IF c = "TestCommand" THEN prefCount + 1 ELSE prefCount
  /\ UNCHANGED <<extEnabled, extInitialized, commands, pluginItems, removed,
                 inits>>
  /\ UNCHANGED <<textVars, dockVars, mouseVars, layoutsVars, blinkVars>>

NextExtensions ==
  \/ ExecuteInitActions \/ EnableExtension
  \/ ExecuteExitActions \/ ExecuteCommand

SpecExtensions == Init /\ [][NextExtensions]_vars

(***************************************************************************)
(* Properties.                                                             *)
(***************************************************************************)

\* Document order of carets: line first, then pos.
DocBefore(c, d) == c.line < d.line \/ (c.line = d.line /\ c.pos < d.pos)

\* The number of flat positions the first n lines take, line breaks included.
RECURSIVE FlatLenOfLines(_, _)
FlatLenOfLines(lines, n) ==
  IF n = 0 THEN 0
  ELSE FlatLenOfLines(lines, n - 1) + Len(lines[n].text) + 1

\* A non-empty selection whose two ends are valid carets.
SelectionInUse ==
  ~Selection_isEmpty(m_selection) /\ Selection_isValid(m_lines, m_selection)

\* C1: the line texts joined with "\n" are the flat text, and the lines'
\* index fields are 0 .. N-1 in order.
C1_LinesJoinToText ==
  /\ JoinLines(m_lines) = text
  /\ \A k \in 1..Len(m_lines) : m_lines[k].i = k - 1

\* C2: once the widget has its lines, m_caret is valid: its line is a line
\* of the widget and its pos is within that line.
C2_CaretValid == m_lines = <<>> \/ Caret_isValid(m_lines, m_caret)

\* C3: a non-empty selection over valid carets has its start before its end
\* in document order, and so start.absolutePos() <= end.absolutePos().
C3_SelectionOrdered ==
  SelectionInUse =>
    /\ DocBefore(m_selection.start, m_selection.end)
    /\ Caret_absolutePos(m_lines, m_selection.start)
         <= Caret_absolutePos(m_lines, m_selection.end)

\* C4: on a valid caret, character-mode left() then right() gives the caret
\* back unless it is at (0,0), and right() then left() unless it is at the
\* end of the last line; there the call returns false and moves nothing,
\* everywhere else it returns true, wrapping at the line boundaries.
C4_LeftRightRoundTrip ==
  Caret_isValid(m_lines, m_caret) =>
    LET l == Caret_left(m_lines, m_caret, FALSE, NoOracle)
        r == Caret_right(m_lines, m_caret, FALSE, NoOracle)
        atStart == m_caret.line = 0 /\ m_caret.pos = 0
        atEnd   == /\ m_caret.line = Len(m_lines) - 1
                   /\ m_caret.pos = Len(m_lines[Len(m_lines)].text)
        back    == Caret_right(m_lines, l.c, FALSE, NoOracle)
        forth   == Caret_left(m_lines, r.c, FALSE, NoOracle)
    IN /\ ~l.gar /\ ~r.gar
       /\ l.ret = ~atStart
       /\ r.ret = ~atEnd
       /\ atStart => l.c = m_caret
       /\ atEnd => r.c = m_caret
       /\ ~atStart => /\ Caret_isValid(m_lines, l.c)
                      /\ back.ret /\ back.c = m_caret
                      /\ m_caret.pos = 0 =>
                           l.c = Caret(m_caret.line - 1,
                                       Len(m_lines[m_caret.line].text))
       /\ ~atEnd => /\ Caret_isValid(m_lines, r.c)
                    /\ forth.ret /\ forth.c = m_caret
                    /\ m_caret.pos = Len(m_lines[m_caret.line + 1].text) =>
                         r.c = Caret(m_caret.line + 1, 0)

\* A caret at column 0 of the second line, after a first line that is not
\* empty: left() wraps to the end of the first line and right() comes back.
C4_Witness ==
  /\ m_caret = Caret(1, 0)
  /\ Len(m_lines) >= 2
  /\ Len(m_lines[1].text) = 2
  /\ Caret_left(m_lines, m_caret, FALSE, NoOracle).c = Caret(0, 2)
  /\ Caret_right(m_lines, Caret(0, 2), FALSE, NoOracle).c = m_caret

\* C5: on a valid caret absolutePos() is the sum of (length + 1) over the
\* lines before it plus pos, which is the caret's offset in the flat text;
\* it is 0 for Caret(0,0) and strictly increasing in document order.
C5_AbsolutePos ==
  /\ Caret_absolutePos(m_lines, Caret(0, 0)) = 0
  /\ Caret_isValid(m_lines, m_caret) =>
       LET a    == Caret_absolutePos(m_lines, m_caret)
           rest == Len(m_lines[m_caret.line + 1].text) - m_caret.pos
       IN /\ a = FlatLenOfLines(m_lines, m_caret.line) + m_caret.pos
          /\ a + rest <= Len(text)
          /\ SubSeq(text, a + 1, a + rest)
               = SubSeq(m_lines[m_caret.line + 1].text,
                        m_caret.pos + 1, m_caret.pos + rest)
          /\ a + rest < Len(text) => text[a + rest + 1] = NL
          /\ \A d \in ValidCarets(m_lines) :
               DocBefore(m_caret, d) => a < Caret_absolutePos(m_lines, d)

\* A caret inside the second line of "aa\na...": its flat offset is 3 + pos.
C5_Witness ==
  /\ Len(m_lines) >= 2
  /\ Len(m_lines[1].text) = 2
  /\ m_caret = Caret(1, 1)
  /\ Caret_absolutePos(m_lines, m_caret) = 4

\* C6: advanceBy(n) on a valid caret at flat offset a, for n > 0 with
\* a + n inside the text, leaves a valid caret at flat offset a + n.
C6_AdvanceByExact ==
  Caret_isValid(m_lines, m_caret) =>
    \A n \in 1..MaxCaretLen :
      Caret_absolutePos(m_lines, m_caret) + n <= Len(text) =>
        LET c == Caret_advanceBy(m_lines, m_caret, n)
        IN /\ Caret_isValid(m_lines, c)
           /\ Caret_absolutePos(m_lines, c)
                = Caret_absolutePos(m_lines, m_caret) + n

\* C7: paste with a clipboard that cannot be read changes neither the text,
\* the lines nor the caret (stated here for selections that are in order).
C7_PasteUnreadableChangesNothing ==
  (/\ ~crashed
   /\ SelectionInUse => DocBefore(m_selection.start, m_selection.end)) =>
    LET r == paste([St EXCEPT !.clip = <<>>, !.clipOK = FALSE], NoOracle)
    IN /\ ~r.crashed
       /\ r.text = text
       /\ r.lines = m_lines
       /\ r.caret = m_caret

\* C8: with a non-empty valid selection deleteSelection() leaves the caret
\* at the selection start and the selection cleared, and pasting the removed
\* substring back gives the original text and the original lines.
C8_DeleteThenPasteBack ==
  (~crashed /\ SelectionInUse) =>
    \A o \in Oracles :
      LET a == Caret_absolutePos(m_lines, m_selection.start)
          b == Caret_absolutePos(m_lines, m_selection.end)
          d == deleteSelection(St, o)
          r == paste([d EXCEPT !.clip = Substr(text, a, b - a),
                               !.clipOK = TRUE], o)
      IN /\ ~d.crashed
         /\ d.caret = m_selection.start
         /\ d.sel = Selection_clear
         /\ ~r.crashed
         /\ r.text = text
         /\ r.lines = m_lines

\* C9: with no selection and no word modifier, Backspace anywhere but at
\* (0,0) removes one position of the flat text.
C9_BackspaceRemovesOne ==
  (/\ ~crashed
   /\ m_lines # <<>>
   /\ Selection_isEmpty(m_selection)
   /\ ~(m_caret.line = 0 /\ m_caret.pos = 0)) =>
    \A o \in Oracles :
      LET r == onKeyDown(St, Key("Backspace", FALSE, FALSE), o)
      IN ~r.crashed /\ Len(r.text) = Len(text) - 1

\* C10: with a non-empty selection copy() puts the flat substring
\* [start.absolutePos(), end.absolutePos()) on the clipboard and changes
\* nothing else.
C10_CopyPutsSelection ==
  (~crashed /\ ~Selection_isEmpty(m_selection)) =>
    LET a == Caret_absolutePos(m_lines, m_selection.start)
        b == Caret_absolutePos(m_lines, m_selection.end)
        r == copy(St)
    IN /\ ~r.crashed
       /\ r.clipOK
       /\ r.clip = (IF a <= b THEN SubSeq(text, a + 1, b) ELSE <<>>)
       /\ r.text = text /\ r.lines = m_lines
       /\ r.caret = m_caret /\ r.sel = m_selection

\* C11: on a non-empty text selectAll() makes the selection run from (0,0)
\* to the end of the last line (last line index, that line's length), also
\* when the first or the last line is empty, and changes nothing else; on
\* an empty text (or before any line exists) it changes nothing at all.
C11_SelectAllSpansText ==
  ~crashed =>
    LET r    == selectAll(St)
        last == Len(m_lines) - 1
    IN IF text = <<>> \/ m_lines = <<>>
         THEN r = St
         ELSE r = [St EXCEPT !.sel = [start |-> Caret(0, 0),
                                      end   |-> Caret(last,
                                                  Len(m_lines[last + 1].text))]]

\* Ctrl+A has run on a text of two lines or more whose first and last lines
\* are empty.
C11_Witness ==
  /\ ~crashed /\ text # <<>> /\ Len(m_lines) >= 2
  /\ m_lines[1].text = <<>> /\ m_lines[Len(m_lines)].text = <<>>
  /\ m_selection = selectAll(St).sel
  /\ m_selection.start = Caret(0, 0)
  /\ m_selection.end = Caret(Len(m_lines) - 1, 0)

(***************************************************************************)
(* How far C7 to C10 do hold: over lines that match the text, with a valid *)
(* caret and a selection in document order.                                *)
(***************************************************************************)

LinesMatchText == JoinLines(m_lines) = text

SelectionInOrder == DocBefore(m_selection.start, m_selection.end)

\* str without its positions a .. b-1 (0-based).
Without(str, a, b) == SubSeq(str, 1, a) \o SubSeq(str, b + 1, Len(str))

\* C7, readable clipboard: the selection, if any and in order, is deleted
\* and the clipboard text inserted at the caret's flat offset; with a caret
\* that is not valid paste does nothing.
C7_PasteInsertsAtCaret ==
  (~crashed /\ LinesMatchText /\ (SelectionInUse => SelectionInOrder)) =>
    \A c \in ClipTexts :
      LET s0 == [St EXCEPT !.clip = c, !.clipOK = TRUE]
          d  == deleteSelection(St, NoOracle)
          p  == Caret_absolutePos(d.lines, d.caret)
          r  == paste(s0, NoOracle)
      IN IF Caret_isValid(m_lines, m_caret)
           THEN /\ ~r.crashed
                /\ r.text = SubSeq(d.text, 1, p) \o c
                              \o SubSeq(d.text, p + 1, Len(d.text))
                /\ r.lines = BuildLines(r.text)
           ELSE r = s0

\* C8, selection in order: deleteSelection() removes [start, end), leaves
\* the caret at the start and the selection cleared, and pasting the removed
\* substring gives the text and the lines back.
C8_OrderedDeleteThenPasteBack ==
  (~crashed /\ LinesMatchText /\ SelectionInUse /\ SelectionInOrder) =>
    LET a == Caret_absolutePos(m_lines, m_selection.start)
        b == Caret_absolutePos(m_lines, m_selection.end)
        d == deleteSelection(St, NoOracle)
        r == paste([d EXCEPT !.clip = Substr(text, a, b - a),
                             !.clipOK = TRUE], NoOracle)
    IN /\ ~d.gar /\ ~d.crashed
       /\ d.text = Without(text, a, b)
       /\ d.lines = BuildLines(d.text)
       /\ d.caret = m_selection.start
       /\ d.sel = Selection_clear
       /\ ~r.crashed /\ r.text = text /\ r.lines = m_lines

\* C9, valid caret: Backspace and Delete with no selection and no modifier
\* remove the position before / after the caret, nothing at the very start /
\* end; Delete leaves the caret, Backspace moves it one flat position back.
C9_ValidCaretRemovesOne ==
  (/\ ~crashed /\ LinesMatchText
   /\ Caret_isValid(m_lines, m_caret)
   /\ Selection_isEmpty(m_selection)) =>
    LET a   == Caret_absolutePos(m_lines, m_caret)
        bs  == onKeyDown(St, Key("Backspace", FALSE, FALSE), NoOracle)
        del == onKeyDown(St, Key("Del", FALSE, FALSE), NoOracle)
    IN /\ ~bs.gar /\ ~bs.crashed /\ ~del.gar /\ ~del.crashed
       /\ bs.text = (IF a = 0 THEN text ELSE Without(text, a - 1, a))
       /\ del.text = (IF a = Len(text) THEN text ELSE Without(text, a, a + 1))
       /\ bs.lines = BuildLines(bs.text)
       /\ del.lines = BuildLines(del.text)
       /\ del.caret = m_caret
       /\ Caret_isValid(bs.lines, bs.caret)
       /\ Caret_absolutePos(bs.lines, bs.caret) = (IF a = 0 THEN 0 ELSE a - 1)

\* C10, selection in order: copy() puts text[start, end) on the clipboard
\* and changes nothing else, cut() also removes it; on an empty selection
\* both change nothing.
C10_OrderedCopyCut ==
  /\ (~crashed /\ LinesMatchText /\ SelectionInUse /\ SelectionInOrder) =>
       LET a == Caret_absolutePos(m_lines, m_selection.start)
           b == Caret_absolutePos(m_lines, m_selection.end)
       IN /\ copy(St) = [St EXCEPT !.clip = SubSeq(text, a + 1, b),
                                   !.clipOK = TRUE]
          /\ cut(St, NoOracle).clip = SubSeq(text, a + 1, b)
          /\ cut(St, NoOracle).text = Without(text, a, b)
  /\ (~crashed /\ Selection_isEmpty(m_selection)) =>
       copy(St) = St /\ cut(St, NoOracle) = St

(***************************************************************************)
(* The Dock tree.                                                          *)
(***************************************************************************)

\* C12: for a Dock D whose slot `side` is empty, dock(side, w, prefSize)
\* followed at once by D.undock(w) gives the heap back with that slot as
\* constructed: no occupant, w without parent, cached alignment 0 and
\* stored size (0,0); nothing else differs.
C12_DockUndockRoundTrip ==
  \A D \in DocksInTree(Heap), side \in Sides, w \in Leaves,
     prefSize \in PrefSizes :
    LET i == side_index(side)
        d == dock(Heap, D, side, w, prefSize)
        r == undock(d, D, w)
    IN (m_sides[D][i] = NULL /\ parent[w] = NULL) =>
         /\ d.sides[D][i] = w /\ d.parent[w] = D
         /\ r.sides[D][i] = NULL /\ r.parent[w] = NULL
         /\ r.aligns[D][i] = NoAlign /\ r.sizes[D][i] = Size(0, 0)
         /\ r = [Heap EXCEPT !.aligns[D][i] = NoAlign,
                             !.sizes[D][i] = Size(0, 0)]

\* dock(LEFT, a, (100,100)) has run on a nested Dock whose slot was empty,
\* and undock(a) on that Dock is about to empty the slot again.
C12_Witness ==
  \E D \in DocksInTree(Heap) \ {RootDock} :
    /\ m_sides[D][kLeftIndex] = "a" /\ parent["a"] = D
    /\ m_sizes[D][kLeftIndex] = Size(100, 100)
    /\ EXPANSIVE \in m_aligns[D][kLeftIndex]
    /\ LET r == undock(Heap, D, "a")
       IN /\ r.sides[D][kLeftIndex] = NULL /\ r.parent["a"] = NULL
          /\ r.aligns[D][kLeftIndex] = NoAlign
          /\ r.sizes[D][kLeftIndex] = Size(0, 0)

\* C13 as stated: after a dock(side, w, ...) that docked w,
\* D.whichSideChildIsDocked(w) is `side`, also when the slot held a nested
\* Dock; it is 0 for a widget that is not docked and after undock(w).
C13_WhichSideIsDockedSide ==
  \A D \in DocksInTree(Heap), w \in Leaves :
    /\ parent[w] = NULL =>
         /\ whichSideChildIsDocked(Heap, D, w) = NoSide
         /\ \A side \in Sides, prefSize \in PrefSizes :
              LET d == dock(Heap, D, side, w, prefSize)
              IN ~d.failed => whichSideChildIsDocked(d, D, w) = side
    /\ whichSideChildIsDocked(undock(Heap, D, w), D, w) = NoSide

\* C13: D.whichSideChildIsDocked(w) is the side of the slot of D itself
\* that w occupies and 0 if there is none.  After dock(side, w, ...) into an
\* empty slot it is `side`; after dock(side, w, ...) into a slot that holds
\* a nested Dock it is 0 on D, and CENTER on the nested Dock that took w;
\* it is 0 for a widget that is not docked and after undock(w).
C13_WhichSideIsOwnSlot ==
  \A D \in DocksInTree(Heap), w \in Leaves :
    /\ whichSideChildIsDocked(Heap, D, w) # NoSide <=> parent[w] = D
    /\ parent[w] = D =>
         m_sides[D][side_index(whichSideChildIsDocked(Heap, D, w))] = w
    /\ parent[w] = NULL =>
         \A side \in Sides, prefSize \in PrefSizes :
           LET d == dock(Heap, D, side, w, prefSize)
           IN ~d.failed =>
                IF m_sides[D][side_index(side)] = NULL
                  THEN whichSideChildIsDocked(d, D, w) = side
                  ELSE /\ whichSideChildIsDocked(d, D, w) = NoSide
                       /\ d.parent[w] \in
                            Subtree(d, m_sides[D][side_index(side)])
                       /\ whichSideChildIsDocked(d, d.parent[w], w) = "CENTER"
    /\ \A E \in DocksInTree(Heap) :
         whichSideChildIsDocked(undock(Heap, D, w), E, w) = NoSide

\* dock(LEFT, a) on the root, whose Left slot held a nested Dock, has put
\* `a` into the nested Dock's Center: the root answers 0, the nested Dock
\* CENTER.
C13_Witness ==
  LET N == m_sides[RootDock][kLeftIndex]
  IN /\ N \in DockIds
     /\ m_sides[N][kCenterIndex] = "a" /\ parent["a"] = N
     /\ whichSideChildIsDocked(Heap, RootDock, "a") = NoSide
     /\ whichSideChildIsDocked(Heap, N, "a") = "CENTER"

\* C14: getUserDefinedSizeAtSide(side) is the stored size of the slot if
\* the slot's cached alignment has EXPANSIVE and (0,0) otherwise.  After
\* dock(side, w, prefSize) into an empty slot the stored size is prefSize,
\* or w's size hint if prefSize is (0,0); every slot that an undock empties
\* answers (0,0).
C14_UserDefinedSize ==
  \A D \in DocksInTree(Heap), side \in Sides :
    LET i == side_index(side)
    IN /\ getUserDefinedSizeAtSide(Heap, D, side) =
            (IF EXPANSIVE \in m_aligns[D][i] THEN m_sizes[D][i]
             ELSE Size(0, 0))
       /\ \A w \in Leaves, prefSize \in PrefSizes :
            (m_sides[D][i] = NULL /\ parent[w] = NULL) =>
              LET d == dock(Heap, D, side, w, prefSize)
                  stored == IF prefSize # Size(0, 0) THEN prefSize
                            ELSE sizeHint(w)
              IN /\ d.sizes[D][i] = stored
                 /\ getUserDefinedSizeAtSide(d, D, side) =
                      (IF EXPANSIVE \in dockableAt(w) THEN stored
                       ELSE Size(0, 0))
       /\ \A w \in Leaves :
            parent[w] \in Subtree(Heap, D) =>
              LET r == undock(Heap, D, w)
              IN \A P \in Subtree(Heap, D), s \in Sides :
                   (m_sides[P][side_index(s)] # NULL
                    /\ r.sides[P][side_index(s)] = NULL) =>
                     getUserDefinedSizeAtSide(r, P, s) = Size(0, 0)

\* `a` (expansive) was docked Left with prefSize (100,100) and `b` (not
\* expansive) in the Center with its size hint: the Left slot answers
\* (100,100), the Center slot (0,0), and undock(a) makes Left answer (0,0).
C14_Witness ==
  \E D \in DocksInTree(Heap) :
    /\ m_sides[D][kLeftIndex] = "a" /\ m_sides[D][kCenterIndex] = "b"
    /\ m_sizes[D][kCenterIndex] = sizeHint("b")
    /\ getUserDefinedSizeAtSide(Heap, D, "LEFT") = Size(100, 100)
    /\ getUserDefinedSizeAtSide(Heap, D, "CENTER") = Size(0, 0)
    /\ getUserDefinedSizeAtSide(undock(Heap, D, "a"), D, "LEFT") = Size(0, 0)

\* The Dock a widget handed to N's Center ends in: N, or the Dock at the
\* end of the chain of Docks nested Center in Center.
RECURSIVE CenterChainEnd(_, _)
CenterChainEnd(h, N) ==
  IF h.sides[N][kCenterIndex] \in DockIds
    THEN CenterChainEnd(h, h.sides[N][kCenterIndex])
    ELSE N

\* C15 as stated: dock(side, w, prefSize) into an empty slot makes w the
\* occupant and a child; into a slot that holds a nested Dock it docks w
\* into that Dock's Center (recursively) and leaves this Dock's slots and
\* children as they were; in both cases w ends up docked below the slot.
C15_DockPlacesWidget ==
  \A D \in DocksInTree(Heap), side \in Sides, w \in Leaves,
     prefSize \in PrefSizes :
    LET i == side_index(side)
        d == dock(Heap, D, side, w, prefSize)
    IN parent[w] = NULL =>
         /\ m_sides[D][i] = NULL =>
              d.sides[D][i] = w /\ d.parent[w] = D
         /\ m_sides[D][i] \in DockIds =>
              /\ d.parent[w] \in Subtree(d, m_sides[D][i])
              /\ d.sides[d.parent[w]][kCenterIndex] = w
              /\ d.sides[D] = m_sides[D]
              /\ children(d, D) = children(Heap, D)

\* C15: dock(side, w, prefSize) into an empty slot makes w the occupant
\* and a child.  Into a slot that holds a nested Dock N it is
\* N.dock(CENTER, w, prefSize) and leaves this Dock's slots and children as
\* they were: w becomes the Center occupant and a child of the Dock at the
\* end of N's chain of Center Docks if that Dock's Center is empty; if a
\* widget that is no Dock sits there, or in the named slot itself, the
\* ASSERT fails and nothing is docked.
C15_DockPlacement ==
  \A D \in DocksInTree(Heap), side \in Sides, w \in Leaves,
     prefSize \in PrefSizes :
    LET i == side_index(side)
        d == dock(Heap, D, side, w, prefSize)
        N == m_sides[D][i]
        E == CenterChainEnd(Heap, N)
    IN parent[w] = NULL =>
         /\ N = NULL =>
              /\ ~d.failed /\ d.sides[D][i] = w /\ d.parent[w] = D
              /\ \A j \in Slots \ {i} : d.sides[D][j] = m_sides[D][j]
         /\ N \in DockIds =>
              /\ d = dock(Heap, N, "CENTER", w, prefSize)
              /\ d.sides[D] = m_sides[D]
              /\ children(d, D) = children(Heap, D)
              /\ E \in Subtree(Heap, N)
              /\ IF m_sides[E][kCenterIndex] = NULL
                   THEN /\ ~d.failed
                        /\ d.sides[E][kCenterIndex] = w /\ d.parent[w] = E
                   ELSE d = [Heap EXCEPT !.failed = TRUE]
         /\ N \in Leaves => d = [Heap EXCEPT !.failed = TRUE]

\* dock(CENTER, b) on the root went through two nested Docks, Center in
\* Center, and docking `a` the same way now trips the ASSERT.
C15_Witness ==
  LET N1 == m_sides[RootDock][kCenterIndex]
      N2 == m_sides[N1][kCenterIndex]
  IN /\ N1 \in DockIds /\ N2 \in DockIds
     /\ m_sides[N2][kCenterIndex] = "b" /\ parent["b"] = N2
     /\ parent["a"] = NULL
     /\ dock(Heap, RootDock, "CENTER", "a", Size(0, 0)).failed

\* The slots, of any Dock, that n occupies.
SlotsOf(h, n) == {<<E, i>> \in DockIds \X Slots : h.sides[E][i] = n}

\* C16: D.undock(w) for a widget w in D's subtree leaves w without parent
\* and in no slot of any Dock; every nested Dock strictly below D that the
\* call leaves without children is taken out of its parent's slot and
\* children, however deep the cascade goes; D itself stays in its parent
\* and in its parent's slot; undock of a widget without parent changes
\* nothing.
C16_UndockCascades ==
  \A D \in DocksInTree(Heap), w \in Leaves :
    LET r == undock(Heap, D, w)
    IN /\ parent[w] = NULL => r = Heap
       /\ parent[w] \in Subtree(Heap, D) =>
            /\ ~r.failed
            /\ r.parent[w] = NULL /\ SlotsOf(r, w) = {}
            /\ \A N \in Subtree(Heap, D) \ {D} :
                 (children(Heap, N) # {} /\ children(r, N) = {}) =>
                   r.parent[N] = NULL /\ SlotsOf(r, N) = {}
            /\ r.parent[D] = parent[D]
            /\ SlotsOf(r, D) = SlotsOf(Heap, D)
            /\ \A n \in Nodes :
                 r.parent[n] # NULL =>
                   r.parent[n] = parent[n] /\ SlotsOf(r, n) = SlotsOf(Heap, n)

\* The root holds a Dock that holds a Dock that holds only `a`, and
\* undock(a) on the root is about to take all three out.
C16_Witness ==
  LET N1 == m_sides[RootDock][kCenterIndex]
      N2 == m_sides[N1][kCenterIndex]
      r  == undock(Heap, RootDock, "a")
  IN /\ N1 \in DockIds /\ N2 \in DockIds
     /\ children(Heap, N1) = {N2} /\ children(Heap, N2) = {"a"}
     /\ r.parent["a"] = NULL /\ r.parent[N2] = NULL /\ r.parent[N1] = NULL
     /\ r.sides[RootDock][kCenterIndex] = NULL
     /\ children(r, RootDock) = children(Heap, RootDock) \ {N1}

\* C17: dockRelativeTo(relative, side, w, prefSize) with `relative` in slot
\* s of its parent Dock P and side other than CENTER: afterwards slot s of P
\* holds a new auto-delete Dock N that is a child of P while `relative` no
\* longer is, N's Center holds `relative`, N's slot `side` holds w, N has
\* the caller's customizing flag, and the other slots of P are as before.
C17_DockRelativeTo ==
  \A this \in DocksInTree(Heap), relative \in Nodes,
     side \in Sides \ {"CENTER"}, w \in Leaves, prefSize \in PrefSizes :
    LET P == parent[relative]
        s == MinOf({i \in Slots : m_sides[P][i] = relative})
        r == dockRelativeTo(Heap, this, relative, side, w, prefSize)
        N == r.sides[P][s]
    IN (P # NULL /\ parent[w] = NULL /\ FreeDocks(Heap) # {}) =>
         /\ ~r.failed
         /\ N \in DockIds \ allocated /\ N \in r.allocated
         /\ r.autoDelete[N]
         /\ r.customizing[N] = m_customizing[this]
         /\ r.customizing[N] = m_customizing[P]
         /\ r.parent[N] = P /\ r.parent[relative] = N
         /\ children(r, P) = (children(Heap, P) \ {relative}) \cup {N}
         /\ r.sides[N][kCenterIndex] = relative
         /\ r.sides[N][side_index(side)] = w /\ r.parent[w] = N
         /\ children(r, N) = {relative, w}
         /\ \A j \in Slots \ {s} :
              /\ r.sides[P][j] = m_sides[P][j]
              /\ r.aligns[P][j] = m_aligns[P][j]
              /\ r.sizes[P][j] = m_sizes[P][j]

\* dockRelativeTo(a, LEFT, b, (100,100)) has run with `a` in the root's
\* Center: the Center holds an auto-delete Dock with `a` in its Center and
\* `b` on its Left.
C17_Witness ==
  LET N == m_sides[RootDock][kCenterIndex]
  IN /\ N \in DockIds /\ m_autoDelete[N] /\ parent[N] = RootDock
     /\ m_sides[N][kCenterIndex] = "a" /\ parent["a"] = N
     /\ m_sides[N][kLeftIndex] = "b" /\ parent["b"] = N
     /\ m_sizes[N][kLeftIndex] = Size(100, 100)
     /\ m_sizes[N][kCenterIndex] = sizeHint("a")
     /\ m_sizes[RootDock][kCenterIndex] = sizeHint(N)

\* C18: subdock(side) returns a Dock that occupies the slot and is a child
\* of this Dock.  A nested Dock already in the slot is returned and nothing
\* changes; otherwise the slot gets a new auto-delete Dock, and a previous
\* occupant becomes the Center occupant and only child of the new Dock.
\* Calling it again returns the same Dock and changes nothing.
C18_Subdock ==
  \A this \in DocksInTree(Heap), side \in Sides :
    LET i   == side_index(side)
        old == m_sides[this][i]
        r   == subdock(Heap, this, side)
        N   == r.ret
    IN (old \in DockIds \/ FreeDocks(Heap) # {}) =>
         /\ ~r.failed
         /\ N \in DockIds /\ N \in r.allocated
         /\ r.sides[this][i] = N /\ r.parent[N] = this
         /\ old \in DockIds => r = [Heap EXCEPT !.ret = old]
         /\ old \notin DockIds =>
              /\ N \notin allocated
              /\ r.autoDelete[N]
              /\ r.customizing[N] = m_customizing[this]
              /\ children(r, this) = (children(Heap, this) \ {old}) \cup {N}
              /\ \A j \in Slots \ {i} : r.sides[this][j] = m_sides[this][j]
              /\ IF old = NULL
                   THEN children(r, N) = {}
                        /\ \A j \in Slots : r.sides[N][j] = NULL
                   ELSE /\ r.sides[N][kCenterIndex] = old
                        /\ r.parent[old] = N
                        /\ children(r, N) = {old}
                        /\ \A j \in Slots \ {kCenterIndex} :
                             r.sides[N][j] = NULL
         /\ subdock(r, this, side) = r

\* subdock(LEFT) has run on a Dock whose Left slot held `b`: the slot holds
\* an auto-delete Dock with `b` alone in its Center, and subdock(LEFT)
\* again returns that Dock.
C18_Witness ==
  \E D \in DocksInTree(Heap) :
    LET N == m_sides[D][kLeftIndex]
    IN /\ N \in DockIds /\ m_autoDelete[N] /\ parent[N] = D
       /\ m_sides[N][kCenterIndex] = "b" /\ children(Heap, N) = {"b"}
       /\ m_sizes[N][kCenterIndex] = sizeHint("b")
       /\ subdock(Heap, D, "LEFT") = [Heap EXCEPT !.ret = N]

\* C19: in every state reached by dock, undock, dockRelativeTo, subdock and
\* resetDocks, for every Dock of the tree and every slot i the cached
\* m_aligns[i] is calcAlign(i) of the slot's present occupant: 0 for an empty
\* slot, the nested Dock's value for a nested Dock, dockableAt() for a
\* Dockable.
C19_AlignCacheCoherent ==
  \A D \in DocksInTree(Heap), i \in Slots :
    m_aligns[D][i] = calcAlign(Heap, D, i)

\* C20: an m_autoDelete nested Dock that loses its last child through
\* undock is detached from its parent and deleted, and so is every
\* m_autoDelete Dock that resetDocks drops; no state holds an auto-created
\* Dock that is allocated and outside the tree.
C20_EmptiedAutoDockIsDeleted ==
  /\ \A N \in allocated : m_autoDelete[N] => N \in DocksInTree(Heap)
  /\ \A D \in DocksInTree(Heap), w \in Leaves :
       LET r == undock(Heap, D, w)
       IN \A N \in allocated :
            (m_autoDelete[N] /\ children(Heap, N) # {}
             /\ children(r, N) = {}) =>
              N \notin r.allocated /\ SlotsOf(r, N) = {}
  /\ \A D \in DocksInTree(Heap) :
       LET r == resetDocks(Heap, D)
       IN \A N \in Subtree(Heap, D) \ {D} :
            m_autoDelete[N] => N \notin r.allocated /\ SlotsOf(r, N) = {}


(***************************************************************************)
(* The mouse protocol.                                                     *)
(***************************************************************************)

\* C21: a mouse-up received while the widget holds the capture releases it
\* on every path, in the Dock (which is idle afterwards: not dragging, hit
\* reset) and in the TextEdit; set-cursor, mouse-move and mouse-up never
\* take the capture, mouse-down and the TextEdit's double-click do.
C21_CaptureReleasedOnMouseUp ==
  /\ \A right \in BOOLEAN, choice \in {NULL, "LEFT", "RIGHT", "TOP", "BOTTOM"} :
       LET r == Dock_onMouseUp(Mouse, right, choice)
       IN /\ ~r.capture
          /\ dockCapture => ~r.dragging /\ r.hit = NoHit
  /\ \A pos \in Points, bounds \in DockBounds :
       Dock_onMouseMove(Mouse, pos, bounds).capture = dockCapture
  /\ \A this \in DocksInTree(Heap) : \A hit \in calcHit(Heap, this) :
       Dock_onSetCursor([Mouse EXCEPT !.this = this], hit).capture = dockCapture
  /\ ~dockCapture => ~m_dragging
  /\ \A shift \in BOOLEAN : ~onMouseUp(St, shift).capture
  /\ \A hit \in HitTests(m_lines) :
       onMouseMove(St, hit).capture = hasCapture

\* A drag has ended with a redock (no Dock operation the tree is built with
\* docks at RIGHT) and the Dock is idle again.
C21_Witness ==
  /\ msgs > 0 /\ ~dockCapture /\ ~m_dragging /\ m_hit = NoHit
  /\ \E d \in DocksInTree(Heap), w \in Leaves : m_sides[d][kRightIndex] = w

\* The mouse-up messages a Dock can get, and whether one redocks by the
\* drag (left button or not, the drag was started and a side is armed).
UpInputs == BOOLEAN \X {NULL, "LEFT", "RIGHT", "TOP", "BOTTOM"}
Armed == dockCapture /\ m_dragging /\ m_hit.dockable # NULL
         /\ m_hit.targetSide # NoTarget

\* C26: a drag of w that ends with a mouse-up while side t is armed leaves
\* w docked so that the Dock that held it reports whichSideChildIsDocked(w)
\* = t, with w's former slot empty; and no mouse-up of a drag or of a
\* context-menu choice leaves w without a parent Dock.
C26_RedockOutcome ==
  \A in \in UpInputs :
    LET r == Dock_onMouseUp(Mouse, in[1], in[2])
        w == m_hit.dockable
        D == parent[w]
        former == {i \in Slots : m_sides[D][i] = w}
    IN dockCapture /\ w # NULL =>
         /\ r.parent[w] # NULL
         /\ Armed =>
              /\ whichSideChildIsDocked(r, D, w) = m_hit.targetSide
              /\ \A i \in former : r.sides[D][i] = NULL

\* The mouse-move messages a Dock can get.
MoveInputs == Points \X DockBounds

\* C27: no message of the drag protocol (set-cursor, mouse-down, mouse-move,
\* mouse-up, context-menu choice) reaches the "Docking failure" assertion of
\* Dock::dock, neither with the placeholder nor with the dragged widget.
C27_NoDockingFailure ==
  /\ \A in \in MoveInputs : ~Dock_onMouseMove(Mouse, in[1], in[2]).failed
  /\ \A in \in UpInputs : ~Dock_onMouseUp(Mouse, in[1], in[2]).failed

\* The pointer is within BUFFER_ZONE of the edge `side` of bounds.
nearEdge(side, pos, bounds) ==
  IF side = "LEFT" THEN pos.x - bounds.x <= BUFFER_ZONE
  ELSE IF side = "RIGHT" THEN bounds.x + bounds.w - pos.x <= BUFFER_ZONE
  ELSE IF side = "TOP" THEN pos.y - bounds.y <= BUFFER_ZONE
  ELSE bounds.y + bounds.h - pos.y <= BUFFER_ZONE

\* C28: an armed target side is one of LEFT, RIGHT, TOP, BOTTOM that the
\* dragged widget declares in dockableAt() and is not the side it is docked
\* at, so the assertion of mouse-up on dockableAt() holds; and a side is
\* armed only with the pointer inside the parent Dock's bounds and within
\* BUFFER_ZONE of that edge of the bounds.
C28_ArmedSideIsLegal ==
  /\ Armed =>
       /\ m_hit.targetSide \in {"LEFT", "RIGHT", "TOP", "BOTTOM"}
       /\ m_hit.targetSide \in dockableAt(m_hit.dockable)
       /\ m_hit.targetSide #
            whichSideChildIsDocked(Heap, parent[m_hit.dockable], m_hit.dockable)
  /\ \A in \in MoveInputs :
       LET r == Dock_onMouseMove(Mouse, in[1], in[2])
       IN r.hit.targetSide # NoTarget /\ r.hit.targetSide # m_hit.targetSide
            => /\ contains(in[2], in[1])
               /\ nearEdge(r.hit.targetSide, in[1], in[2])

\* The placeholder sits at side `side` of the Dock D: in that slot, or in
\* the Dock nested in that slot.
atSide(h, D, side) ==
  LET occupant == h.sides[D][side_index(side)]
  IN \/ occupant = Placeholder
     \/ /\ occupant \in DockIds
        /\ h.parent[Placeholder] \in Subtree(h, occupant)

\* C29: the placeholder is in at most one slot of the tree and is the child
\* of the Dock of that slot; when it is docked a drag is going on and it
\* sits at the armed target side of the dragged widget's Dock; a mouse-move
\* that changes the armed side takes it out of the slot it was in, whose
\* size goes back to (0,0), before it docks it again; and a mouse-up leaves
\* it docked nowhere, the slot it was in either empty with size (0,0) or
\* taken by the dragged widget.
C29_PlaceholderDiscipline ==
  /\ Cardinality(SlotsOf(Heap, Placeholder)) <= 1
  /\ \A sl \in SlotsOf(Heap, Placeholder) : parent[Placeholder] = sl[1]
  /\ parent[Placeholder] # NULL =>
       /\ SlotsOf(Heap, Placeholder) # {}
       /\ Armed
       /\ atSide(Heap, parent[m_hit.dockable], m_hit.targetSide)
  /\ \A in \in MoveInputs :
       LET r == Dock_onMouseMove(Mouse, in[1], in[2])
       IN /\ Cardinality(SlotsOf(r, Placeholder)) <= 1
          /\ r.hit.targetSide # m_hit.targetSide =>
               \A sl \in SlotsOf(Heap, Placeholder) :
                 /\ r.sides[sl[1]][sl[2]] = NULL
                 /\ r.sizes[sl[1]][sl[2]] = Size(0, 0)
  /\ \A in \in UpInputs :
       LET r == Dock_onMouseUp(Mouse, in[1], in[2])
       IN dockCapture =>
            /\ r.parent[Placeholder] = NULL
            /\ SlotsOf(r, Placeholder) = {}
            /\ \A sl \in SlotsOf(Heap, Placeholder) :
                 \/ /\ r.sides[sl[1]][sl[2]] = NULL
                    /\ r.sizes[sl[1]][sl[2]] = Size(0, 0)
                 \/ r.sides[sl[1]][sl[2]] = m_hit.dockable

\* A drag has armed a side that holds a nested Dock, and the placeholder is
\* docked inside that Dock.
C29_Witness ==
  /\ Armed /\ parent[Placeholder] # NULL
  /\ parent[Placeholder] # parent[m_hit.dockable]

\* A resize drag is going on: the Dock holds the capture for a separator.
Resizing == dockCapture /\ m_hit.sideIndex >= 0

\* C30: during a resize drag of a slot, a mouse-move to p leaves the slot's
\* size along its axis (height for Top and Bottom, width for Left and
\* Right) at startSize + (p - startPos) for Top and Left and at startSize -
\* (p - startPos) for Bottom and Right, so a move back to startPos restores
\* startSize; the other dimension of the slot and the sizes of all other
\* slots stay as they are, and the move fires Resize.
C30_ResizeProtocol ==
  Resizing =>
    \A in \in MoveInputs :
      LET r == Dock_onMouseMove(Mouse, in[1], in[2])
          p == in[1]
          i == m_hit.sideIndex
          old == m_sizes[mouseDock][i]
          new == r.sizes[mouseDock][i]
          dx == p.x - m_startPos.x
          dy == p.y - m_startPos.y
      IN /\ i = kTopIndex => SizeH(new) = SizeH(m_startSize) + dy
         /\ i = kLeftIndex => SizeW(new) = SizeW(m_startSize) + dx
         /\ i = kBottomIndex => SizeH(new) = SizeH(m_startSize) - dy
         /\ i = kRightIndex => SizeW(new) = SizeW(m_startSize) - dx
         /\ i \in {kTopIndex, kBottomIndex} => SizeW(new) = SizeW(old)
         /\ i \in {kLeftIndex, kRightIndex} => SizeH(new) = SizeH(old)
         /\ p = m_startPos =>
              /\ SizeW(new) = SizeW(m_startSize)
              /\ SizeH(new) = SizeH(m_startSize)
         /\ \A d \in DockIds, j \in Slots :
              <<d, j>> # <<mouseDock, i>> => r.sizes[d][j] = m_sizes[d][j]
         /\ r.resized
         /\ r.sides = m_sides /\ r.parent = parent

\* A resize drag has moved the separator of the Left slot: its width is no
\* longer the width recorded at mouse-down.
C30_Witness ==
  /\ Resizing
  /\ m_hit.sideIndex = kLeftIndex
  /\ SizeW(m_sizes[mouseDock][kLeftIndex]) = SizeW(m_startSize) + 2

(***************************************************************************)
(* Layouts.                                                                *)
(***************************************************************************)

\* The ids of a layout vector are unique.
UniqueIds(layouts) ==
  \A j, k \in 1..Len(layouts) : layouts[j].id = layouts[k].id => j = k

\* C22: addLayout(l) returns true exactly when no entry with l's id existed
\* and l is not a built-in default layout; afterwards getById(l.id) is l;
\* an entry with the same id is replaced at its position, the other entries
\* and the size of the collection unchanged, a new one is appended; unique
\* ids stay unique.
C22_AddLayout ==
  layoutsAlive =>
    \A l \in NewLayouts :
      LET r == addLayout(m_layouts, l)
          existed == \E k \in 1..Len(m_layouts) : m_layouts[k].id = l.id
          default == l.id \in {kDefault, kMirroredDefault}
      IN /\ r.ret <=> (~existed /\ ~default)
         /\ getById(r.layouts, l.id) = l
         /\ existed =>
              /\ Len(r.layouts) = Len(m_layouts)
              /\ \A k \in 1..Len(m_layouts) :
                   r.layouts[k] = IF m_layouts[k].id = l.id THEN l
                                  ELSE m_layouts[k]
         /\ ~existed => r.layouts = m_layouts \o <<l>>
         /\ UniqueIds(m_layouts) => UniqueIds(r.layouts)

\* A collection of three layouts, one of them a default layout, to which
\* every addLayout replaces an entry.
C22_Witness ==
  /\ layoutsAlive
  /\ Len(m_layouts) = 3
  /\ m_layouts[1].elem.tree = "t2"
  /\ \E k \in 1..3 : m_layouts[k].id = kDefault

C24_FailedLoadIsEmpty ==
  /\ Layouts_ctor(Unparsable, 0) = <<>>
  /\ \A failAt \in 1..Len(storage.elems) :
       Layouts_ctor(storage, failAt) = <<>>

(***************************************************************************)
(* Extensions.                                                             *)
(***************************************************************************)

DownInputs == Points \X BOOLEAN

\* C31: a mouse-down makes the Dock drag only if at that moment the Dock is
\* in customize mode and the pointer is over the handle of a Dockable it
\* holds, with a button that is not the right one, and makes it resize only
\* if the pointer is over the separator of an occupied slot, whatever
\* set-cursor messages and setCustomizing, dock and undock calls came
\* before; and the Dock never resizes and drags at the same time.
C31_DockStateEntry ==
  /\ \A in \in DownInputs :
       LET r == Dock_onMouseDown(Mouse, in[1], in[2])
       IN /\ r.dragging /\ ~m_dragging =>
               /\ ~in[2]
               /\ m_customizing[mouseDock]
               /\ [NoHit EXCEPT !.dockable = m_hit.dockable]
                    \in calcHit(Heap, mouseDock)
          /\ r.capture /\ ~dockCapture /\ r.hit.sideIndex >= 0 =>
               [NoHit EXCEPT !.sideIndex = m_hit.sideIndex]
                 \in calcHit(Heap, mouseDock)
          /\ ~(r.dragging /\ r.capture /\ r.hit.sideIndex >= 0)
  /\ ~(m_dragging /\ Resizing)

(***************************************************************************)
(* The layout pass, Dock::forEachSide (dock.cpp 741-804).  The pass goes   *)
(* over the five slots in index order with a shrinking rectangle; the      *)
(* callback gets the widget, its rectangle, the separator and the index.   *)
(* What isVisible() and isDecorative() answer for a widget is an input of  *)
(* the pass: the sets `visible` and `decorative`.                          *)
(***************************************************************************)

\* setChildSpacing(4 * ui::guiscale()) with a gui scale of 1.
ChildSpacing == 4

\* gfx::Rect(), Rect::x2 and Rect::y2.
EmptyRect == Rect(0, 0, 0, 0)
x2(rc) == rc.x + rc.w
y2(rc) == rc.y + rc.h

\* The bounds the pass is run with: roomy ones, and ones the larger
\* extents of the model do not fit in.
LayoutBounds == {Rect(0, 0, 300, 300), Rect(3, 3, 120, 150)}

\* The rectangle of slot i: the first statement of each case of the switch.
sideRect_BottomFromTop(i, bounds, sz) ==
  CASE i = kTopIndex    -> Rect(bounds.x, bounds.y, bounds.w, SizeH(sz))
    [] i = kBottomIndex -> Rect(bounds.x, bounds.y, bounds.w, SizeH(sz))
    [] i = kLeftIndex   -> Rect(bounds.x, bounds.y, SizeW(sz), bounds.h)
    [] i = kRightIndex  ->
         Rect(x2(bounds) - SizeW(sz), bounds.y, SizeW(sz), bounds.h)
    [] OTHER            -> bounds

sideRect(i, bounds, sz) ==
  CASE i = kTopIndex    -> Rect(bounds.x, bounds.y, bounds.w, SizeH(sz))
    [] i = kBottomIndex ->
         Rect(bounds.x, y2(bounds) - SizeH(sz), bounds.w, SizeH(sz))
    [] i = kLeftIndex   -> Rect(bounds.x, bounds.y, SizeW(sz), bounds.h)
    [] i = kRightIndex  ->
         Rect(x2(bounds) - SizeW(sz), bounds.y, SizeW(sz), bounds.h)
    [] OTHER            -> bounds

\* The bounds once the rectangle rc of slot i is taken out of them.
afterRect(i, bounds, rc) ==
  CASE i = kTopIndex    -> [bounds EXCEPT !.y = @ + rc.h, !.h = @ - rc.h]
    [] i = kBottomIndex -> [bounds EXCEPT !.h = @ - rc.h]
    [] i = kLeftIndex   -> [bounds EXCEPT !.x = @ + rc.w, !.w = @ - rc.w]
    [] i = kRightIndex  -> [bounds EXCEPT !.w = @ - rc.w]
    [] OTHER            -> bounds

\* The separator of slot i, in the bounds left by afterRect: the body of
\* if (spacing > 0); the Center case has none.
sideSeparator(i, bounds, spacing) ==
  IF spacing > 0
  THEN CASE i = kTopIndex    -> Rect(bounds.x, bounds.y, bounds.w, spacing)
         [] i = kBottomIndex ->
              Rect(bounds.x, y2(bounds) - spacing, bounds.w, spacing)
         [] i = kLeftIndex   -> Rect(bounds.x, bounds.y, spacing, bounds.h)
         [] i = kRightIndex  ->
              Rect(x2(bounds) - spacing, bounds.y, spacing, bounds.h)
         [] OTHER            -> EmptyRect
  ELSE EmptyRect

\* The bounds once the separator of slot i is taken out as well.
afterSeparator(i, bounds, spacing) ==
  IF spacing > 0
  THEN CASE i = kTopIndex    ->
              [bounds EXCEPT !.y = @ + spacing, !.h = @ - spacing]
         [] i = kBottomIndex -> [bounds EXCEPT !.h = @ - spacing]
         [] i = kLeftIndex   ->
              [bounds EXCEPT !.x = @ + spacing, !.w = @ - spacing]
         [] i = kRightIndex  -> [bounds EXCEPT !.w = @ - spacing]
         [] OTHER            -> bounds
  ELSE bounds

\* One turn of the loop for a slot that is not skipped.
sideStep(h, this, i, bounds) ==
  LET widget  == h.sides[this][i]
      exp     == EXPANSIVE \in h.aligns[this][i]
      spacing == IF exp THEN ChildSpacing ELSE 0
      sz      == IF exp THEN h.sizes[this][i] ELSE sizeHint(widget)
      rc      == sideRect(i, bounds, sz)
      b1      == afterRect(i, bounds, rc)
  IN [call   |-> [widget |-> widget, rc |-> rc,
                  separator |-> sideSeparator(i, b1, spacing), index |-> i],
      bounds |-> afterSeparator(i, b1, spacing)]

\* The loop from slot i on: the sequence of the callback's calls.
RECURSIVE forEachSideFrom(_, _, _, _, _, _)
forEachSideFrom(h, this, visible, decorative, i, bounds) ==
  IF i > kCenterIndex
  THEN << >>
  ELSE LET widget == h.sides[this][i]
       IN IF widget = NULL \/ widget \notin visible \/ widget \in decorative
          THEN forEachSideFrom(h, this, visible, decorative, i + 1, bounds)
          ELSE LET st == sideStep(h, this, i, bounds)
               IN <<st.call>>
                    \o forEachSideFrom(h, this, visible, decorative,
                                       i + 1, st.bounds)

forEachSide(h, this, visible, decorative, bounds) ==
  forEachSideFrom(h, this, visible, decorative, kTopIndex, bounds)

(***************************************************************************)
(* C32: the layout pass.                                                   *)
(***************************************************************************)

\* The widgets in the slots of a Dock, and the inputs of a pass over it:
\* what is visible, what is decorative, and the bounds.
occupants(h, this) == {h.sides[this][i] : i \in Slots} \ {NULL}
PassInputs(this) ==
  (SUBSET occupants(Heap, this)) \X (SUBSET occupants(Heap, this))
    \X LayoutBounds

\* The slots the callback ran for, and the call of slot i.
visited(out) == {out[k].index : k \in 1..Len(out)}
callAt(out, i) == out[CHOOSE k \in 1..Len(out) : out[k].index = i]

\* What slot i takes from the height (Top, Bottom) or the width (Left,
\* Right) of the bounds: its extent and its gutter.
takenH(out, i) ==
  IF i \in visited(out)
  THEN callAt(out, i).rc.h + callAt(out, i).separator.h ELSE 0
takenW(out, i) ==
  IF i \in visited(out)
  THEN callAt(out, i).rc.w + callAt(out, i).separator.w ELSE 0

\* The rectangle that remains of bounds B once the four sides are served.
Remaining(out, B) ==
  Rect(B.x + takenW(out, kLeftIndex), B.y + takenH(out, kTopIndex),
       B.w - takenW(out, kLeftIndex) - takenW(out, kRightIndex),
       B.h - takenH(out, kTopIndex) - takenH(out, kBottomIndex))

\* The extents of the slots fit in the bounds: none is negative and
\* nothing negative remains.
Fits(out, B) ==
  /\ \A k \in 1..Len(out) : out[k].rc.w >= 0 /\ out[k].rc.h >= 0
  /\ Remaining(out, B).w >= 0 /\ Remaining(out, B).h >= 0

inside(rc, B) ==
  /\ rc.x >= B.x /\ x2(rc) <= x2(B)
  /\ rc.y >= B.y /\ y2(rc) <= y2(B)
overlap(r1, r2) ==
  /\ r1.w > 0 /\ r1.h > 0 /\ r2.w > 0 /\ r2.h > 0
  /\ r1.x < x2(r2) /\ r2.x < x2(r1)
  /\ r1.y < y2(r2) /\ r2.y < y2(r1)

\* The rectangles a pass hands out, tagged so that two equal rectangles
\* stay two: slot rectangles and the separators that were produced.
Pieces(out) ==
  {<<"rc", k, out[k].rc>> : k \in 1..Len(out)}
  \cup {<<"separator", k, out[k].separator>> :
          k \in {j \in 1..Len(out) : out[j].separator # EmptyRect}}

\* The separator of a call lies against its slot, on the side of the
\* slot that faces the rest of the bounds, and is ChildSpacing thick.
gutterInside(c) ==
  CASE c.index = kTopIndex ->
         c.separator = Rect(c.rc.x, y2(c.rc), c.rc.w, ChildSpacing)
    [] c.index = kBottomIndex ->
         c.separator =
           Rect(c.rc.x, c.rc.y - ChildSpacing, c.rc.w, ChildSpacing)
    [] c.index = kLeftIndex ->
         c.separator = Rect(x2(c.rc), c.rc.y, ChildSpacing, c.rc.h)
    [] c.index = kRightIndex ->
         c.separator =
           Rect(c.rc.x - ChildSpacing, c.rc.y, ChildSpacing, c.rc.h)
    [] OTHER -> FALSE

\* The pass over Dock `this` with input `in`, the gutter rule applied to
\* the slots of `gutterSlots`.
PassHolds(this, in, gutterSlots) ==
  LET B   == in[3]
      out == forEachSide(Heap, this, in[1], in[2], B)
      R   == Remaining(out, B)
  IN /\ visited(out) = {i \in Slots : /\ m_sides[this][i] # NULL
                                      /\ m_sides[this][i] \in in[1]
                                      /\ m_sides[this][i] \notin in[2]}
     /\ \A k \in 1..Len(out) :
          /\ out[k].widget = m_sides[this][out[k].index]
          /\ \A l \in 1..Len(out) : k < l => out[k].index < out[l].index
     /\ Fits(out, B) =>
          /\ \A p \in Pieces(out) : inside(p[3], B)
          /\ \A p, q \in Pieces(out) : p # q => ~overlap(p[3], q[3])
          /\ \A k \in 1..Len(out) :
               LET c == out[k]
               IN /\ c.index \in {kTopIndex, kBottomIndex} =>
                       c.rc.x = B.x /\ c.rc.w = B.w
                  /\ c.index \in {kLeftIndex, kRightIndex} =>
                       c.rc.y = R.y /\ c.rc.h = R.h
                  /\ c.index = kCenterIndex => c.rc = R
     /\ \A k \in 1..Len(out) :
          LET c == out[k]
          IN /\ c.index \in gutterSlots =>
                  /\ c.separator # EmptyRect
                       <=> EXPANSIVE \in m_aligns[this][c.index]
                  /\ c.separator # EmptyRect => gutterInside(c)
             /\ c.index \notin gutterSlots => c.separator = EmptyRect

\* C32 as stated: in every pass over a Dock of the tree the callback runs
\* for the occupied, visible, non-decorative slots in the order Top,
\* Bottom, Left, Right, Center; when the extents fit, the rectangles and
\* gutters lie in the bounds without overlapping, Top and Bottom are as
\* wide as the bounds, Left and Right as high as what remains, Center is
\* what remains; and every slot, Center included, gets a gutter of
\* ChildSpacing on its inner side exactly when its alignment is EXPANSIVE.
C32_LayoutPass ==
  \A this \in DocksInTree(Heap) : \A in \in PassInputs(this) :
    PassHolds(this, in, Slots)

\* C32 amended: the same, the gutter rule for the four side slots only;
\* the Center slot never gets a gutter.
C32_LayoutPassSides ==
  \A this \in DocksInTree(Heap) : \A in \in PassInputs(this) :
    PassHolds(this, in, Slots \ {kCenterIndex})

\* A pass over the root Dock in which everything is shown and fits, a
\* slot on the far side (Bottom or Right) gets a gutter, and the Center
\* slot is served without one although its alignment is EXPANSIVE.
C32_Witness ==
  \E B \in LayoutBounds :
    LET out == forEachSide(Heap, RootDock, occupants(Heap, RootDock), {}, B)
    IN /\ Fits(out, B)
       /\ \E i \in {kBottomIndex, kRightIndex} :
            /\ i \in visited(out)
            /\ callAt(out, i).separator # EmptyRect
       /\ kCenterIndex \in visited(out)
       /\ EXPANSIVE \in m_aligns[RootDock][kCenterIndex]
       /\ Len(out) >= 3

(***************************************************************************)
(* Visibility, Dock::updateDockVisibility (dock.cpp 720-739).  The HIDDEN  *)
(* flags of the widgets are an input: the set `hidden`.  The root Dock is  *)
(* taken to sit in a visible manager.                                      *)
(***************************************************************************)

\* Widget::isVisible: neither the widget nor a widget above it is hidden.
RECURSIVE isVisible(_, _, _)
isVisible(h, hidden, w) ==
  /\ w \notin hidden
  /\ h.parent[w] # NULL => isVisible(h, hidden, h.parent[w])

\* Widget::setVisible.
setVisible(hidden, w, visible) ==
  IF visible THEN hidden \ {w} ELSE hidden \cup {w}

RECURSIVE updateDockVisibility(_, _, _)
RECURSIVE updateSlots(_, _, _, _, _)

\* for (int i = 0; i < kSides; ++i) from slot i on, `visible` being the
\* local of that name; gives the flags and the local after the loop.
updateSlots_Shallow(h, hidden, this, i, visible) ==
  IF i > kCenterIndex
  THEN [hidden |-> hidden, visible |-> visible]
  ELSE LET widget == h.sides[this][i]
       IN IF widget = NULL
          THEN updateSlots(h, hidden, this, i + 1, visible)
          ELSE updateSlots(h, hidden, this, i + 1,
                           visible \/ isVisible(h, hidden, widget))

updateSlots(h, hidden, this, i, visible) ==
  IF i > kCenterIndex
  THEN [hidden |-> hidden, visible |-> visible]
  ELSE LET widget == h.sides[this][i]
       IN IF widget = NULL
          THEN updateSlots(h, hidden, this, i + 1, visible)
          ELSE LET h1 == IF widget \in DockIds
                         THEN updateDockVisibility(h, hidden, widget)
                         ELSE hidden
               IN updateSlots(h, h1, this, i + 1,
                              visible \/ isVisible(h, h1, widget))

updateDockVisibility(h, hidden, this) ==
  LET r == updateSlots(h, setVisible(hidden, this, TRUE), this,
                       kTopIndex, FALSE)
  IN setVisible(r.hidden, this, r.visible)

(***************************************************************************)
(* C33: visibility after updateDockVisibility.                             *)
(***************************************************************************)

\* The widgets at and below Dock d, through the slots.
Below(h, d) ==
  UNION {{e} \cup occupants(h, e) : e \in Subtree(h, d)}

\* The HIDDEN flags a call can meet: any of the widgets below the Dock
\* hidden, with the Docks at and below it either all shown or all hidden.
HiddenInputs(this) ==
  {L \cup K : L \in SUBSET (Below(Heap, this) \ DockIds),
              K \in {{}, Below(Heap, this) \cap DockIds}}

\* C33: whatever the HIDDEN flags were, after updateDockVisibility() on a
\* Dock of the tree every Dock at or below it is visible exactly when one
\* of its slots holds a visible occupant; so a Dock whose slots are all
\* empty, or hold only hidden widgets and invisible nested Docks, is not
\* visible.
C33_DockVisibility ==
  \A this \in DocksInTree(Heap) : \A hidden \in HiddenInputs(this) :
    LET after == updateDockVisibility(Heap, hidden, this)
    IN \A d \in Subtree(Heap, this) :
         isVisible(Heap, after, d)
           <=> \E w \in occupants(Heap, d) : isVisible(Heap, after, w)

\* The root holds a nested Dock and a shown leaf; the nested Dock holds
\* only a hidden leaf and was flagged visible: the update hides the nested
\* Dock and keeps the root visible.
C33_Witness ==
  \E n \in occupants(Heap, RootDock) \cap DockIds :
    \E w \in occupants(Heap, n) \cap Leaves :
      /\ occupants(Heap, n) = {w}
      /\ occupants(Heap, RootDock) \cap Leaves # {}
      /\ LET after == updateDockVisibility(Heap, {w}, RootDock)
         IN /\ ~isVisible(Heap, after, n)
            /\ isVisible(Heap, after, RootDock)
            /\ after = {w, n}

(***************************************************************************)
(* C34: selection with Shift and the arrow keys.                           *)
(***************************************************************************)

\* The arrow keys, with and without Ctrl.
ArrowKeys == {"Left", "Right", "Up", "Down"} \X BOOLEAN

\* The selection spans the carets a and b: it starts at the one that comes
\* first in the document and ends at the other.
Spans(sel, a, b) ==
  LET lo == IF DocBefore(b, a) THEN b ELSE a
      hi == IF DocBefore(b, a) THEN a ELSE b
  IN Caret_eq(sel.start, lo) /\ Caret_eq(sel.end, hi)

\* C34: with a valid caret c, (1) from an empty selection Shift+arrow moves
\* the caret to c' and leaves the selection [min(c,c'), max(c,c')]; (2) from
\* a selection with the caret at one end and the anchor at the other,
\* Shift+arrow keeps the anchor as one end and puts the caret at the
\* other; (3) an arrow without Shift empties the selection.
C34_ShiftArrowSelection ==
  ~crashed /\ Caret_isValid(m_lines, m_caret) =>
    \A k \in ArrowKeys :
      LET shifted == onKeyDown(St, Key(k[1], k[2], TRUE), NoOracle)
          plain   == onKeyDown(St, Key(k[1], k[2], FALSE), NoOracle)
          anchor  == IF Caret_eq(m_selection.end, m_caret)
                       THEN m_selection.start ELSE m_selection.end
      IN /\ Selection_isEmpty(m_selection) /\ ~shifted.crashed =>
              Spans(shifted.sel, m_caret, shifted.caret)
         /\ /\ SelectionInUse /\ ~shifted.crashed
            /\ \/ Caret_eq(m_selection.start, m_caret)
               \/ Caret_eq(m_selection.end, m_caret)
            => Spans(shifted.sel, anchor, shifted.caret)
         /\ ~plain.crashed => Selection_isEmpty(plain.sel)

(***************************************************************************)
(* C35: selection by dragging the mouse.                                   *)
(***************************************************************************)

\* A drag is under way from the origin m_mouseCaretStart, and a mouse-move
\* has put the selection between the origin and the caret.
Dragged ==
  /\ ~crashed /\ hasCapture
  /\ Caret_isValid(m_lines, m_mouseCaretStart)
  /\ Caret_isValid(m_lines, m_caret)
  /\ Spans(m_selection, m_mouseCaretStart, m_caret)

\* C35: (1) operator> is the lexicographic order on (line, pos); (2) a
\* mouse-move of a drag with origin o that resolves to the valid caret c
\* leaves the selection (o, c) if c > o and (c, o) otherwise, start never
\* after end; (3) a mouse-up after such a move, with or without Shift,
\* leaves the selection spanning the origin and the caret.
C35_DragSelection ==
  /\ \A a, b \in ValidCarets(m_lines) : Caret_gt(a, b) <=> DocBefore(b, a)
  /\ ~crashed /\ hasCapture /\ Caret_isValid(m_lines, m_mouseCaretStart) =>
       \A hit \in HitTests(m_lines) :
         hit.ok /\ Caret_isValid(m_lines, hit.c) =>
           LET r == onMouseMove(St, hit)
           IN /\ Spans(r.sel, m_mouseCaretStart, hit.c)
              /\ ~DocBefore(r.sel.end, r.sel.start)
  /\ Dragged =>
       \A shift \in BOOLEAN :
         Spans(onMouseUp(St, shift).sel, m_mouseCaretStart, m_caret)

(***************************************************************************)
(* C36: the word moves stay on the caret's line.                           *)
(***************************************************************************)

\* The caret d is on the line of c, within that line.
OnLineOf(lines, c, d) ==
  /\ d.line = c.line
  /\ 0 <= d.pos /\ d.pos <= Len(lines[c.line + 1].text)

\* C36: on a valid caret, leftWord(), rightWord(), left(true) and
\* right(true) leave `line` as it was and end with 0 <= pos <= the length
\* of the line, wherever the word lies in the line.
C36_WordMovesStayOnLine ==
  Caret_isValid(m_lines, m_caret) =>
    /\ OnLineOf(m_lines, m_caret, Caret_leftWord(m_lines, m_caret, NoOracle).c)
    /\ OnLineOf(m_lines, m_caret, Caret_rightWord(m_lines, m_caret, NoOracle).c)
    /\ OnLineOf(m_lines, m_caret,
                Caret_left(m_lines, m_caret, TRUE, NoOracle).c)
    /\ OnLineOf(m_lines, m_caret,
                Caret_right(m_lines, m_caret, TRUE, NoOracle).c)

(***************************************************************************)
(* C38: word selection by double-click.                                    *)
(***************************************************************************)

\* The word that reaches the caret c from the left: it starts at the
\* first of the word characters that end at c.pos, and ends after the last
\* of the word characters that follow.
WordStart(lines, c) ==
  CHOOSE st \in 0..c.pos :
    /\ \A q \in st..(c.pos - 1) : WordAt(lines, c, q)
    /\ st = 0 \/ ~WordAt(lines, c, st - 1)
WordEnd(lines, c) ==
  CHOOSE en \in c.pos..Len(lines[c.line + 1].text) :
    /\ \A q \in c.pos..(en - 1) : WordAt(lines, c, q)
    /\ ~WordAt(lines, c, en)
InWord(lines, c) == c.pos > 0 /\ WordAt(lines, c, c.pos - 1)
NoWordOnLine(lines, c) ==
  \A q \in 0..Len(lines[c.line + 1].text) : ~WordAt(lines, c, q)

\* C38: a double-click that resolves to a valid caret inside a word leaves
\* the selection on that line, from the first character of the word to
\* just past its last, 0 <= start.pos < end.pos <= length, both ends valid
\* carets, and m_caret at the selection end, also for a word that begins
\* at column 0; on a line without a word the selection and the caret stay
\* as they were.
C38_DoubleClickSelectsWord ==
  ~crashed =>
    \A hit \in HitTests(m_lines) :
      hit.ok /\ Caret_isValid(m_lines, hit.c) =>
        LET r == onDoubleClick(St, hit, NoOracle)
        IN /\ InWord(m_lines, hit.c) =>
                /\ r.sel.start.line = hit.c.line
                /\ r.sel.end.line = hit.c.line
                /\ r.sel.start.pos = WordStart(m_lines, hit.c)
                /\ r.sel.end.pos = WordEnd(m_lines, hit.c)
                /\ 0 <= r.sel.start.pos /\ r.sel.start.pos < r.sel.end.pos
                /\ r.sel.end.pos <= Len(m_lines[hit.c.line + 1].text)
                /\ Selection_isValid(m_lines, r.sel)
                /\ Caret_eq(r.caret, r.sel.end)
           /\ NoWordOnLine(m_lines, hit.c) =>
                r.sel = m_selection /\ r.caret = m_caret

(***************************************************************************)
(* C39: the slots and the children of the Docks agree.                     *)
(***************************************************************************)

Removed(r) == {e \in DockIds : parent[e] # NULL /\ r.parent[e] = NULL}

\* C40: D.undock(w) with w in slot i of Dock P, P being D or a Dock
\* nested below D, sets the stored size of slot i of P to zero; the only
\* other sizes it may change are those of the emptied nested Docks the
\* cascade removes and of the slots that held them.  Every other stored
\* size, slot i of D when P is not D among them, is as before.
C40_UndockSizesFrame ==
  \A D \in DocksInTree(Heap) : \A w \in Leaves :
    LET P == parent[w]
        r == undock(Heap, D, w)
    IN P # NULL /\ P \in Subtree(Heap, D) /\ ~r.failed =>
         \A i \in Slots :
           m_sides[P][i] = w =>
             /\ r.sizes[P][i] = Size(0, 0)
             /\ \A d \in DockIds : \A j \in Slots :
                  \/ r.sizes[d][j] = m_sizes[d][j]
                  \/ d = P /\ j = i
                  \/ d \in Removed(r)
                  \/ m_sides[d][j] \in Removed(r)

(***************************************************************************)
(* The caret blink: TextEdit::startTimer, stopTimer and the timer, focus   *)
(* and mouse cases of TextEdit::onProcessMessage, for two TextEdits that   *)
(* share s_timer.  The window manager keeps a single focus: a focus change *)
(* moves HAS_FOCUS at once and queues focus-leave for the old widget and   *)
(* focus-enter for the new one, the two in either order; the queue is      *)
(* delivered first in, first out.                                          *)
(* Mouse-down goes to the focused widget, mouse-up to the widget that      *)
(* holds the capture.                                                      *)
(***************************************************************************)

\* The blink state as one record.
Blink == [timer |-> s_timer, running |-> running, drawCaret |-> m_drawCaret,
          focus |-> focus_widget, capture |-> capture_widget]

\* TextEdit::startTimer: stop the Timer there is, make one for this
\* widget and start it.
startTimer(b, this) ==
  LET b1 == IF b.timer # NULL THEN [b EXCEPT !.running[b.timer] = @ - 1]
                              ELSE b
  IN [b1 EXCEPT !.timer = this, !.running[this] = @ + 1]

\* TextEdit::stopTimer
stopTimer(b) ==
  IF b.timer # NULL
    THEN [b EXCEPT !.running[b.timer] = @ - 1, !.timer = NULL]
    ELSE b

\* case kTimerMessage; isShared is timer() == s_timer.get().
kTimerMessage(b, this, isShared) ==
  IF b.focus = this /\ isShared
    THEN [b EXCEPT !.drawCaret[this] = ~@]
    ELSE b

\* case kFocusEnterMessage
kFocusEnterMessage(b, this) ==
  startTimer([b EXCEPT !.drawCaret[this] = TRUE], this)

\* case kFocusLeaveMessage
kFocusLeaveMessage(b, this) ==
  [stopTimer(b) EXCEPT !.drawCaret[this] = FALSE]

\* case kMouseDownMessage, as far as capture, timer and m_drawCaret go.
kMouseDownMessage(b, this) ==
  [stopTimer([b EXCEPT !.capture = this]) EXCEPT !.drawCaret[this] = TRUE]

\* case kMouseUpMessage, as far as capture and timer go.
kMouseUpMessage(b, this) ==
  IF b.capture = this
    THEN startTimer([b EXCEPT !.capture = NULL], this)
    ELSE b

\* A message handled by a TextEdit.
ApplyBlink(b) ==
  /\ blinks < MaxBlinks
  /\ blinks' = blinks + 1
  /\ s_timer' = b.timer
  /\ running' = b.running
  /\ m_drawCaret' = b.drawCaret
  /\ capture_widget' = b.capture
  /\ UNCHANGED <<textVars, dockVars, mouseVars, layoutsVars, extVars,
                 focus_widget>>

FocusMsg(type, to) == [type |-> type, to |-> to]

\* The manager moves the focus to w (NULL: to no TextEdit).
SetFocus == \E w \in TextEdits \cup {NULL}, leaveFirst \in BOOLEAN :
  LET leave == IF focus_widget # NULL
                 THEN <<FocusMsg("leave", focus_widget)>> ELSE << >>
      enter == IF w # NULL THEN <<FocusMsg("enter", w)>> ELSE << >>
  IN /\ w # focus_widget
     /\ blinks < MaxBlinks
     /\ inFlight = << >>
     /\ focus_widget' = w
     /\ inFlight' = IF leaveFirst THEN leave \o enter ELSE enter \o leave
     /\ UNCHANGED <<textVars, dockVars, mouseVars, layoutsVars, extVars,
                    s_timer, running, m_drawCaret, capture_widget, blinks>>

\* The message at the head of the queue is delivered.
FocusEnter ==
  /\ inFlight # << >>
  /\ Head(inFlight).type = "enter"
  /\ inFlight' = Tail(inFlight)
  /\ ApplyBlink(kFocusEnterMessage(Blink, Head(inFlight).to))

FocusLeave ==
  /\ inFlight # << >>
  /\ Head(inFlight).type = "leave"
  /\ inFlight' = Tail(inFlight)
  /\ ApplyBlink(kFocusLeaveMessage(Blink, Head(inFlight).to))

\* The running Timer ticks: the message goes to the widget it was made for.
TimerTick ==
  /\ s_timer # NULL
  /\ UNCHANGED inFlight
  /\ ApplyBlink(kTimerMessage(Blink, s_timer, TRUE))

BlinkMouseDown == \E w \in TextEdits :
  /\ focus_widget = w
  /\ capture_widget \in {NULL, w}
  /\ UNCHANGED inFlight
  /\ ApplyBlink(kMouseDownMessage(Blink, w))

BlinkMouseUp == \E w \in TextEdits :
  /\ capture_widget = w
  /\ UNCHANGED inFlight
  /\ ApplyBlink(kMouseUpMessage(Blink, w))

NextBlink ==
  \/ SetFocus \/ FocusEnter \/ FocusLeave
  \/ TimerTick \/ BlinkMouseDown \/ BlinkMouseUp

SpecBlink == Init /\ [][NextBlink]_vars

(***************************************************************************)
(* C37: the shared blink timer.                                            *)
(***************************************************************************)

\* The started Timers there are.
RunningTimers == running["T1"] + running["T2"]

\* C37: (1) at most one blink Timer runs, the one s_timer holds; (2) once
\* the focus messages are delivered, in whichever order, the TextEdit that
\* has the focus and is not in a mouse drag owns the running Timer; (3) a
\* tick toggles m_drawCaret only in the focused widget that owns the
\* Timer, and in no other.
C37_SharedBlinkTimer ==
  /\ RunningTimers <= 1
  /\ s_timer # NULL <=> RunningTimers = 1
  /\ s_timer # NULL => running[s_timer] = 1
  /\ inFlight = << >> =>
       \A w \in TextEdits :
         focus_widget = w /\ capture_widget # w => s_timer = w
  /\ \A w \in TextEdits : \A isShared \in BOOLEAN :
       LET r == kTimerMessage(Blink, w, isShared)
       IN r.drawCaret # m_drawCaret =>
            /\ isShared /\ focus_widget = w
            /\ \A v \in TextEdits \ {w} : r.drawCaret[v] = m_drawCaret[v]
====
